---- MODULE Spec2Model ----
(***************************************************************************)
(* State-machine models of the command-line scripts of the repository:     *)
(*   scripts/repeat_command.py          (async repetition of a command)    *)
(*   scripts/transfer_eth.py            (ETH transfers with retries)       *)
(*   scripts/send_blob_transactions.py  (Osaka blob transactions)          *)
(*   scripts/send_transactions.py       (plain transactions)               *)
(* Every script is a separate program; each gets its own specification     *)
(* over the shared variable tuple, the variables of the other scripts      *)
(* staying at their idle values.                                           *)
(***************************************************************************)
EXTENDS Integers, Sequences, FiniteSets, TLC

None == "None"

(***************************************************************************)
(* Bounds of the model.                                                    *)
(***************************************************************************)
MaxTimes == 3
MaxConcurrent == 2
MaxDelay == 1

(***************************************************************************)
(* scripts/repeat_command.py, async mode                                   *)
(*                                                                         *)
(* Time is counted in seconds. A sleeping task carries the seconds that    *)
(* remain of its sleep; Tick lets one second pass. The event loop may be   *)
(* late (a second may pass while an elapsed timer has not been served) but *)
(* never early.                                                            *)
(***************************************************************************)
VARIABLES
    command,         \* what the command string contains (see Commands)
    times,           \* args.times
    max_concurrent,  \* args.concurrent
    delay,           \* args.delay, in seconds
    rc_pc,           \* position of main / execute_commands_async
    exit_status,     \* exit status of the script, -1 while it runs
    private_key,     \* closure variable of execute_commands_async
    rpc_url,         \* closure variable of execute_commands_async
    semaphore,       \* value of the asyncio.Semaphore, -1 before it exists
    task_pc,         \* position of every bounded_execute task
    attempt,         \* loop variable of execute_command_async, per task
    timer,           \* seconds that remain of the asyncio.sleep a task is in
    proc,            \* state of the subprocess of the current attempt
    last_exit,       \* how the previous attempt ended and how long ago
    launches,        \* number of subprocesses launched by each execution
    since_launch     \* seconds since the first launch of each execution
                     \* (counted up to delay), -1 before it

rcVars == <<command, times, max_concurrent, delay, rc_pc, exit_status,
            private_key, rpc_url, semaphore, task_pc, attempt, timer, proc,
            last_exit, launches, since_launch>>

\* scripts/transfer_eth.py
VARIABLES
    addresses,       \* the destination addresses, in list order
    amount,          \* args.amount, a float
    balance,         \* the sender's balance in wei when main reads it
    te_pc,           \* position of main / transfer_eth
    te_exit,         \* exit status of the script, -1 while it runs
    current,         \* index in addresses of the transfer in progress
    success_count,   \* success_count of main
    te_attempt,      \* loop variable `attempt` of transfer_eth
    nonce,           \* nonce of transfer_eth
    last_tx_hash,    \* attempt whose transaction was broadcast last, or -1
    error_message,   \* what the caught exception's message contains
    sent,            \* per address, whether a transaction (a transfer or a
                     \* cancellation) has been broadcast for it
    broadcasts,      \* transfers broadcast by the current call of transfer_eth
    results          \* how each call of transfer_eth ended, in order

teVars == <<addresses, amount, balance, te_pc, te_exit, current,
            success_count, te_attempt, nonce, last_tx_hash, error_message,
            sent, broadcasts, results>>

\* scripts/send_blob_transactions.py and scripts/send_transactions.py
VARIABLES
    script,          \* which of the two scripts runs
    args,            \* the parsed command line
    sb_pc,           \* position of send_blob / send_transaction
    validated,       \* how validate_osaka_params ended, if it was called
    blobs,           \* len(blobs), -1 before prepare_blobs
    versioned_hashes,  \* len(versioned_hashes), -1 before they are computed
    tx,              \* the transaction dictionary
    estimate_requested,  \* w3.eth.estimate_gas has been called
    estimated,       \* what estimate_gas returned, -1 if nothing
    signed,          \* the transaction has been signed
    tx_hash,         \* the transaction has been submitted
    raised           \* the exception that ended the function, if any

sbVars == <<script, args, sb_pc, validated, blobs, versioned_hashes, tx,
            estimate_requested,
            estimated, signed, tx_hash, raised>>

\* compute_versioned_hashes of scripts/send_blob_transactions.py
VARIABLES
    vh_blobs,        \* the argument `blobs`
    vh_pc,           \* position in compute_versioned_hashes
    vh_hashes        \* the list versioned_hashes

vhVars == <<vh_blobs, vh_pc, vh_hashes>>

\* scripts/repeat_command.py, sequential mode (execute_command)
VARIABLES
    sq_command,      \* the command line to repeat
    sq_times,        \* args.times
    sq_delay,        \* args.delay, in seconds
    sq_pc,           \* position of execute_command
    sq_exit,         \* exit status of the script, -1 while it runs
    sq_private_key,  \* private_key of execute_command
    sq_rpc_url,      \* rpc_url of execute_command
    sq_i,            \* loop variable i
    sq_timer,        \* seconds that remain of time.sleep(delay)
    sq_executions,   \* number of times the command has been started
    sq_since         \* seconds since the previous execution ended (counted
                     \* up to delay), -1 before the first one ends

sqVars == <<sq_command, sq_times, sq_delay, sq_pc, sq_exit, sq_private_key,
            sq_rpc_url, sq_i, sq_timer, sq_executions, sq_since>>

\* The variables of the sequential mode while something else is looked at.
SqIdle ==
    /\ sq_command = [blob |-> FALSE, key |-> FALSE, url |-> FALSE,
                     replace |-> FALSE]
    /\ sq_times = 0
    /\ sq_delay = 0
    /\ sq_pc = "idle"
    /\ sq_exit = -1
    /\ sq_private_key = None
    /\ sq_rpc_url = None
    /\ sq_i = 0
    /\ sq_timer = 0
    /\ sq_executions = 0
    /\ sq_since = -1

\* scripts/withdrawals.py and scripts/voluntary_exits.py
VARIABLES
    wd_script,       \* which of the two scripts runs
    wd_args,         \* the parsed command line
    wd_pc,           \* position in the script
    wd_password,     \* the variable `password`
    wd_answer,       \* what the user typed at each confirmation prompt
    wd_balance,      \* the variable `balance`, -1 before it is read
    wd_excess,       \* storage slot 0 of the contract as read, <<>> before
    wd_tx,           \* the transactions handed to w3.eth.send_transaction
    wd_exit,         \* exit status of the script, -1 while it runs
    wd_raised        \* the exception that left the script, or None

wdVars == <<wd_script, wd_args, wd_pc, wd_password, wd_answer, wd_balance,
            wd_excess, wd_tx, wd_exit, wd_raised>>

\* The confirmation prompts: lines 213, 79 and 88 of withdrawals.py and
\* lines 167 and 57 of voluntary_exits.py.
Prompts == {"main_large", "large", "exit", "main_exit", "send_exit"}

\* The variables of the two validator scripts while another script is looked
\* at.
WdIdle ==
    /\ wd_script = None
    /\ wd_args = [amount |-> [neg |-> FALSE, abs |-> [mant |-> <<>>, exp |-> 0]],
                  validator_index |-> 0, private_key |-> None,
                  keystore_path |-> FALSE, fund_account |-> FALSE]
    /\ wd_pc = "idle"
    /\ wd_password = None
    /\ wd_answer = [p \in Prompts |-> None]
    /\ wd_balance = -1
    /\ wd_excess = <<>>
    /\ wd_tx = <<>>
    /\ wd_exit = -1
    /\ wd_raised = None

\* One call of transfer_eth (scripts/transfer_eth.py) and the chain it talks to
VARIABLES
    t1_pc,           \* position in transfer_eth
    t1_gas_price_gwei, \* the argument gas_price_gwei, 0 for None
    t1_nonce,        \* the variable `nonce`
    t1_attempt,      \* the loop variable `attempt`
    t1_last_tx_hash, \* <<>> for None, else <<the transaction last sent>>
    t1_error,        \* error_message of the except block
    t1_result,       \* what the call returned or raised, None while it runs
    tx_count,        \* the sender's transaction count at block 'latest'
    prior_pending,   \* nonces below this one were pending before the call
    mempool,         \* transfers of this call the node holds, not yet mined
    mined            \* transfers of this call included in a block

t1Vars == <<t1_pc, t1_gas_price_gwei, t1_nonce, t1_attempt, t1_last_tx_hash,
            t1_error, t1_result, tx_count, prior_pending, mempool, mined>>

\* The variables of the single call while a script is looked at.
T1Idle ==
    /\ t1_pc = "idle"
    /\ t1_gas_price_gwei = 0
    /\ t1_nonce = 0
    /\ t1_attempt = 0
    /\ t1_last_tx_hash = <<>>
    /\ t1_error = None
    /\ t1_result = [kind |-> "running", status |-> -1]
    /\ tx_count = 0
    /\ prior_pending = 0
    /\ mempool = {}
    /\ mined = {}

\* scripts/repeat_command.py, async mode with nonce replacement: the nonce of
\* every execution and the node the nonces are read from
VARIABLES
    nr_times,        \* args.times
    nr_delay,        \* args.delay, in seconds
    nr_semaphore,    \* value of the asyncio.Semaphore, -1 before it exists
    nr_pc,           \* position of execute_commands_async
    nr_exit,         \* exit status of the script, -1 while it runs
    nr_task,         \* position of every bounded_execute task
    nr_timer,        \* seconds that remain of the asyncio.sleep a task is in
    nr_attempt,      \* loop variable of execute_command_async, per task
    current_nonce,   \* current_nonce of every bounded_execute, -1 before
    nr_launches,     \* number of subprocesses launched by each execution
    pending_count    \* the account's transaction count at block 'pending'

nrVars == <<nr_times, nr_delay, nr_semaphore, nr_pc, nr_exit, nr_task,
            nr_timer, nr_attempt, current_nonce, nr_launches, pending_count>>

\* The variables of the nonce replacement while something else is looked at.
NrIdle ==
    /\ nr_times = 0
    /\ nr_delay = 0
    /\ nr_semaphore = -1
    /\ nr_pc = "idle"
    /\ nr_exit = -1
    /\ nr_task = <<>>
    /\ nr_timer = <<>>
    /\ nr_attempt = <<>>
    /\ current_nonce = <<>>
    /\ nr_launches = <<>>
    /\ pending_count = 0

vars == <<rcVars, teVars, sbVars, vhVars, sqVars, wdVars, t1Vars, nrVars>>

\* What a specification of one script leaves alone.
rcIdle == <<teVars, sbVars, vhVars, sqVars, wdVars, t1Vars, nrVars>>
teIdle == <<rcVars, sbVars, vhVars, sqVars, wdVars, t1Vars, nrVars>>
sbIdle == <<rcVars, teVars, vhVars, sqVars, wdVars, t1Vars, nrVars>>
vhIdle == <<rcVars, teVars, sbVars, sqVars, wdVars, t1Vars, nrVars>>
sqIdle == <<rcVars, teVars, sbVars, vhVars, wdVars, t1Vars, nrVars>>
wdIdle == <<rcVars, teVars, sbVars, vhVars, sqVars, t1Vars, nrVars>>
t1Idle == <<rcVars, teVars, sbVars, vhVars, sqVars, wdVars, nrVars>>
nrIdle == <<rcVars, teVars, sbVars, vhVars, sqVars, wdVars, t1Vars>>

\* The variables of compute_versioned_hashes while a script is looked at.
VhIdle ==
    /\ vh_blobs = <<>>
    /\ vh_pc = "idle"
    /\ vh_hashes = <<>>

\* args.gas_limit: None without --gas-limit, else the integer given.
NotGiven == [given |-> FALSE, v |-> 0]
Given(v) == [given |-> TRUE, v |-> v]

\* The transaction dictionary before it is built.
NoTx == [type |-> 0, value |-> 0, gas |-> -1]

\* The variables of the two sending scripts while another script is looked at.
SbIdle ==
    /\ script = None
    /\ args = [tx_type |-> "0x3", value |-> 0, number_of_blobs |-> 0,
               gas_limit |-> NotGiven, validate_osaka_params |-> FALSE]
    /\ sb_pc = "idle"
    /\ validated = "not called"
    /\ blobs = -1
    /\ versioned_hashes = -1
    /\ tx = NoTx
    /\ estimate_requested = FALSE
    /\ estimated = -1
    /\ signed = FALSE
    /\ tx_hash = FALSE
    /\ raised = None

\* The variables of transfer_eth.py while another script is looked at.
TeIdle ==
    /\ addresses = <<>>
    /\ amount = [mant |-> <<>>, exp |-> 0]
    /\ balance = <<>>
    /\ te_pc = "idle"
    /\ te_exit = -1
    /\ current = 0
    /\ success_count = 0
    /\ te_attempt = 0
    /\ nonce = 0
    /\ last_tx_hash = -1
    /\ error_message = None
    /\ sent = <<>>
    /\ broadcasts = 0
    /\ results = <<>>

Tasks == 0 .. (MaxTimes - 1)

\* The features of the command string the script looks at.
\* The patterns are only looked for in a send_blob_transactions.py command, and
\* without {REPLACE} only a command that has both of them differs from a plain
\* one, so the other combinations are left out.
Commands ==
    {c \in [blob : BOOLEAN,      \* contains "send_blob_transactions.py"
            key : BOOLEAN,       \* the --private-key pattern matches
            url : BOOLEAN,       \* the --rpc-url pattern matches
            replace : BOOLEAN] : \* contains "{REPLACE}"
        /\ (~c.blob => ~c.key /\ ~c.url)
        /\ (c.blob /\ ~c.replace => c.key /\ c.url)}

parse_blob_tx_command_KeyOnly(c) ==
    IF ~c.blob THEN <<None, None>>
    ELSE IF ~c.key THEN <<None, None>>
    ELSE <<"0xkey", "http://url">>

parse_blob_tx_command(c) ==
    IF ~c.blob THEN <<None, None>>
    ELSE IF ~c.key THEN <<None, None>>
    ELSE IF ~c.url THEN <<None, None>>
    ELSE <<"0xkey", "http://url">>

max_retries == 3
RetrySleep == 1

NoExit == [result |-> None, ago |-> 0]

RcInit ==
    /\ command \in Commands
    /\ times \in 0 .. MaxTimes
    /\ max_concurrent \in -1 .. MaxConcurrent
    /\ delay \in 0 .. MaxDelay
    /\ rc_pc = "start"
    /\ exit_status = -1
    /\ private_key = None
    /\ rpc_url = None
    /\ semaphore = -1
    /\ task_pc = [i \in Tasks |-> "absent"]
    /\ attempt = [i \in Tasks |-> 0]
    /\ timer = [i \in Tasks |-> 0]
    /\ proc = [i \in Tasks |-> "none"]
    /\ last_exit = [i \in Tasks |-> NoExit]
    /\ launches = [i \in Tasks |-> 0]
    /\ since_launch = [i \in Tasks |-> -1]
    /\ TeIdle
    /\ SbIdle
    /\ VhIdle
    /\ SqIdle
    /\ WdIdle
    /\ T1Idle
    /\ NrIdle

\* Effect of exiting the script with sys.exit(status) or an uncaught exception.
RcExit(status) ==
    /\ rc_pc' = "exited"
    /\ exit_status' = status

\* execute_commands_async up to asyncio.gather: the {REPLACE} check, the
\* semaphore (asyncio.Semaphore raises ValueError for a negative value, which
\* main does not catch) and the creation of the tasks.
ExecuteCommandsAsync ==
    /\ rc_pc = "start"
    /\ LET parsed == parse_blob_tx_command(command)
           nonceMode == parsed[1] # None /\ parsed[2] # None /\ command.replace
       IN /\ private_key' = parsed[1]
          /\ rpc_url' = parsed[2]
          /\ IF ~nonceMode /\ command.replace
             THEN /\ RcExit(1)
                  /\ UNCHANGED <<semaphore, task_pc>>
             ELSE IF max_concurrent < 0
             THEN /\ RcExit(1)
                  /\ UNCHANGED <<semaphore, task_pc>>
             ELSE /\ semaphore' = max_concurrent
                  /\ task_pc' = [i \in Tasks |->
                                   IF i < times THEN "created" ELSE "absent"]
                  /\ rc_pc' = "gather"
                  /\ UNCHANGED exit_status
    /\ UNCHANGED <<command, times, max_concurrent, delay, attempt, timer,
                   proc, last_exit, launches, since_launch>>
    /\ UNCHANGED rcIdle

\* The task leaves execute_command_async and `async with semaphore`: its
\* locals are gone and the semaphore is released.
TaskReturns(i, sem) ==
    /\ task_pc' = [task_pc EXCEPT ![i] = "done"]
    /\ attempt' = [attempt EXCEPT ![i] = 0]
    /\ last_exit' = [last_exit EXCEPT ![i] = NoExit]
    /\ semaphore' = sem + 1

\* One iteration of the retry loop of execute_command_async, from its top to
\* the await of process.communicate(): attempt number a, entered with the
\* semaphore at value sem. When creating the subprocess raises, the except
\* branch breaks out of the loop and the task ends.
StartAttempt(i, a, sem, raises) ==
    IF raises
    THEN /\ TaskReturns(i, sem)
         /\ UNCHANGED <<proc, launches, since_launch>>
    ELSE /\ task_pc' = [task_pc EXCEPT ![i] = "communicate"]
         /\ attempt' = [attempt EXCEPT ![i] = a]
         /\ semaphore' = sem
         /\ proc' = [proc EXCEPT ![i] = "running"]
         /\ launches' = [launches EXCEPT ![i] = @ + 1]
         /\ since_launch' = [since_launch EXCEPT
                               ![i] = IF @ = -1 THEN 0 ELSE @]
         /\ UNCHANGED last_exit

\* `async with semaphore` is entered without waiting while the semaphore's
\* value is positive.
SemaphoreFree_NoLimit == TRUE

SemaphoreFree == semaphore > 0

\* bounded_execute after its initial sleep: the nonce lookup (get_current_nonce
\* ends the script with sys.exit(1) when the lookup fails) and the entry into
\* `async with semaphore`.
AfterDelay(i) ==
    \E nonce_ok \in BOOLEAN, raises \in BOOLEAN :
        IF private_key # None /\ rpc_url # None /\ ~nonce_ok
        THEN /\ RcExit(1)
             /\ UNCHANGED <<semaphore, task_pc, attempt, proc, last_exit,
                            launches, since_launch>>
        ELSE /\ UNCHANGED <<rc_pc, exit_status>>
             /\ IF SemaphoreFree
                THEN StartAttempt(i, 0, semaphore - 1, raises)
                ELSE /\ task_pc' = [task_pc EXCEPT ![i] = "waiting"]
                     /\ UNCHANGED <<semaphore, attempt, proc, last_exit,
                                    launches, since_launch>>

\* The event loop runs a created task for the first time (tasks start in the
\* order of their creation).
BoundedExecute(i) ==
    /\ rc_pc = "gather"
    /\ task_pc[i] = "created"
    /\ \A j \in Tasks : j < i => task_pc[j] # "created"
    /\ IF i > 0
       THEN /\ task_pc' = [task_pc EXCEPT ![i] = "sleeping"]
            /\ timer' = [timer EXCEPT ![i] = delay]
            /\ UNCHANGED <<rc_pc, exit_status, semaphore, attempt, proc,
                           last_exit, launches, since_launch>>
       ELSE /\ AfterDelay(i)
            /\ UNCHANGED timer
    /\ UNCHANGED <<command, times, max_concurrent, delay, private_key,
                   rpc_url>>
    /\ UNCHANGED rcIdle

\* asyncio.sleep(delay) of bounded_execute is over.
DelayElapsed(i) ==
    /\ rc_pc = "gather"
    /\ task_pc[i] = "sleeping"
    /\ timer[i] = 0
    /\ AfterDelay(i)
    /\ UNCHANGED <<command, times, max_concurrent, delay, private_key,
                   rpc_url, timer>>
    /\ UNCHANGED rcIdle

\* A task blocked in `async with semaphore` acquires the semaphore.
SemaphoreAcquired(i) ==
    /\ rc_pc = "gather"
    /\ task_pc[i] = "waiting"
    /\ SemaphoreFree
    /\ \E raises \in BOOLEAN : StartAttempt(i, 0, semaphore - 1, raises)
    /\ UNCHANGED <<command, times, max_concurrent, delay, rc_pc, exit_status,
                   private_key, rpc_url, timer>>
    /\ UNCHANGED rcIdle

ExitResults == {"success", "nonce_error", "other_error", "exception"}

\* Whether the loop of execute_command_async goes on to another attempt after
\* an attempt that ended with `result`.
Retries_AnyError(result, a) ==
    /\ result # "success"
    /\ a < max_retries - 1

Retries(result, a) ==
    /\ result = "nonce_error"
    /\ a < max_retries - 1

\* process.communicate() returns: the subprocess has finished with
\*   success      return code 0
\*   nonce_error  non-zero return code, stderr names a nonce error
\*   other_error  non-zero return code, any other stderr
\*   exception    the handling of the output raises (caught by `except`)
Communicate(i, result) ==
    /\ rc_pc = "gather"
    /\ task_pc[i] = "communicate"
    /\ proc' = [proc EXCEPT ![i] = "exited"]
    /\ IF Retries(result, attempt[i])
       THEN /\ task_pc' = [task_pc EXCEPT ![i] = "retry_sleep"]
            /\ timer' = [timer EXCEPT ![i] = RetrySleep]
            /\ last_exit' = [last_exit EXCEPT
                               ![i] = [result |-> result, ago |-> 0]]
            /\ UNCHANGED <<semaphore, attempt>>
       ELSE /\ TaskReturns(i, semaphore)
            /\ UNCHANGED timer
    /\ UNCHANGED <<command, times, max_concurrent, delay, rc_pc, exit_status,
                   private_key, rpc_url, launches, since_launch>>
    /\ UNCHANGED rcIdle

\* asyncio.sleep(1) before a retry is over: the loop continues.
RetryAfterSleep(i) ==
    /\ rc_pc = "gather"
    /\ task_pc[i] = "retry_sleep"
    /\ timer[i] = 0
    /\ \E raises \in BOOLEAN :
           StartAttempt(i, attempt[i] + 1, semaphore, raises)
    /\ UNCHANGED <<command, times, max_concurrent, delay, rc_pc, exit_status,
                   private_key, rpc_url, timer>>
    /\ UNCHANGED rcIdle

\* asyncio.gather returns once every task has ended; main returns.
GatherDone ==
    /\ rc_pc = "gather"
    /\ \A i \in Tasks : task_pc[i] \in {"absent", "done"}
    /\ RcExit(0)
    /\ UNCHANGED <<command, times, max_concurrent, delay, private_key,
                   rpc_url, semaphore, task_pc, attempt, timer, proc,
                   last_exit, launches, since_launch>>
    /\ UNCHANGED rcIdle

\* KeyboardInterrupt while the loop runs: main cancels every task. A cancelled
\* task never launches again; subprocesses already launched keep running.
KeyboardInterrupt ==
    /\ rc_pc = "gather"
    /\ task_pc' = [i \in Tasks |->
                     IF task_pc[i] \in {"absent", "done"} THEN task_pc[i]
                     ELSE "cancelled"]
    /\ attempt' = [i \in Tasks |-> 0]
    /\ timer' = [i \in Tasks |-> 0]
    /\ last_exit' = [i \in Tasks |-> NoExit]
    /\ RcExit(0)
    /\ UNCHANGED <<command, times, max_concurrent, delay, private_key,
                   rpc_url, semaphore, proc, launches, since_launch>>
    /\ UNCHANGED rcIdle

\* A subprocess whose task is gone (cancelled, or the script has exited)
\* finishes on its own.
OrphanExit(i) ==
    /\ rc_pc = "exited"
    /\ proc[i] = "running"
    /\ proc' = [proc EXCEPT ![i] = "exited"]
    /\ UNCHANGED <<command, times, max_concurrent, delay, rc_pc, exit_status,
                   private_key, rpc_url, semaphore, task_pc, attempt, timer,
                   last_exit, launches, since_launch>>
    /\ UNCHANGED rcIdle

\* One second passes while the event loop runs. The tasks created by
\* execute_commands_async get their first turn before the loop waits.
Tick ==
    /\ rc_pc = "gather"
    /\ \A i \in Tasks : task_pc[i] # "created"
    /\ timer' = [i \in Tasks |-> IF timer[i] > 0 THEN timer[i] - 1 ELSE 0]
    /\ since_launch' = [i \in Tasks |->
                          IF since_launch[i] = -1 \/ since_launch[i] >= delay
                          THEN since_launch[i] ELSE since_launch[i] + 1]
    /\ last_exit' = [i \in Tasks |->
                       IF last_exit[i].result = None
                          \/ last_exit[i].ago >= RetrySleep
                       THEN last_exit[i]
                       ELSE [last_exit[i] EXCEPT !.ago = @ + 1]]
    /\ UNCHANGED <<command, times, max_concurrent, delay, rc_pc, exit_status,
                   private_key, rpc_url, semaphore, task_pc, attempt, proc,
                   launches>>
    /\ UNCHANGED rcIdle

RcNext ==
    \/ ExecuteCommandsAsync
    \/ \E i \in Tasks : BoundedExecute(i)
    \/ \E i \in Tasks : DelayElapsed(i)
    \/ \E i \in Tasks : SemaphoreAcquired(i)
    \/ \E i \in Tasks : \E result \in ExitResults : Communicate(i, result)
    \/ \E i \in Tasks : RetryAfterSleep(i)
    \/ GatherDone
    \/ KeyboardInterrupt
    \/ \E i \in Tasks : OrphanExit(i)
    \/ Tick

SpecAsync == RcInit /\ [][RcNext]_vars

(***************************************************************************)
(* Arithmetic of scripts/transfer_eth.py.                                  *)
(*                                                                         *)
(* args.amount is a Python float (an IEEE-754 double), the balance is an   *)
(* integer number of wei and web3.from_wei turns it into an exact Decimal. *)
(* These numbers do not fit the integers of the model checker, so a        *)
(* natural number is a sequence of bits, least significant bit first,      *)
(* without leading zeros (0 is the empty sequence).                        *)
(***************************************************************************)
RECURSIVE Norm(_)
Norm(a) ==
    IF a = <<>> THEN a
    ELSE IF a[Len(a)] = 0 THEN Norm(SubSeq(a, 1, Len(a) - 1))
    ELSE a

\* Bit j of a, and the number made of the eight bits 8k+1 .. 8k+8 of a.
Bit(a, j) == IF j <= Len(a) THEN a[j] ELSE 0

Chunk(a, k) ==
    Bit(a, 8 * k + 1) + 2 * Bit(a, 8 * k + 2) + 4 * Bit(a, 8 * k + 3)
    + 8 * Bit(a, 8 * k + 4) + 16 * Bit(a, 8 * k + 5) + 32 * Bit(a, 8 * k + 6)
    + 64 * Bit(a, 8 * k + 7) + 128 * Bit(a, 8 * k + 8)

ChunkBits(v) ==
    <<v % 2, (v \div 2) % 2, (v \div 4) % 2, (v \div 8) % 2,
      (v \div 16) % 2, (v \div 32) % 2, (v \div 64) % 2, (v \div 128) % 2>>

\* a + b + c from chunk k on, eight bits at a time
RECURSIVE AddCarry(_, _, _, _)
AddCarry(a, b, k, c) ==
    IF 8 * k >= Len(a) /\ 8 * k >= Len(b)
    THEN (IF c = 0 THEN <<>> ELSE <<1>>)
    ELSE LET t == Chunk(a, k) + Chunk(b, k) + c
         IN ChunkBits(t % 256) \o AddCarry(a, b, k + 1, t \div 256)

Add(a, b) == Norm(AddCarry(a, b, 0, 0))

\* a * 2^k
ShiftLeft(a, k) ==
    IF a = <<>> THEN a ELSE [j \in 1 .. k |-> 0] \o a

\* a * n for a small natural number n
RECURSIVE TimesNat(_, _)
TimesNat(a, n) ==
    IF n = 0 THEN <<>> ELSE Add(a, TimesNat(a, n - 1))

\* a * 10^k
RECURSIVE TimesPow10(_, _)
TimesPow10(a, k) ==
    IF k = 0 THEN a
    ELSE LET t == Add(ShiftLeft(a, 3), ShiftLeft(a, 1))
         IN IF t = <<>> THEN t ELSE TimesPow10(t, k - 1)

\* a < b for numbers of the same length, from chunk k down
RECURSIVE LessFrom(_, _, _)
LessFrom(a, b, k) ==
    IF k < 0 THEN FALSE
    ELSE IF Chunk(a, k) # Chunk(b, k) THEN Chunk(a, k) < Chunk(b, k)
    ELSE LessFrom(a, b, k - 1)

Less(a, b) ==
    IF Len(a) # Len(b) THEN Len(a) < Len(b) ELSE LessFrom(a, b, Len(a) \div 8)

\* The bits of a natural number below 2^31.
NatBits(v) ==
    Norm(ChunkBits(v % 256) \o ChunkBits((v \div 256) % 256)
         \o ChunkBits((v \div 65536) % 256) \o ChunkBits(v \div 16777216))

\* The natural number written in decimal, cut into groups of nine digits, most
\* significant group first: <<2, 99999999, 999999700>> is 2099999999999999700.
RECURSIVE FromDecimal(_)
FromDecimal(groups) ==
    IF groups = <<>> THEN <<>>
    ELSE LET front == FromDecimal(SubSeq(groups, 1, Len(groups) - 1))
         IN Add(TimesPow10(front, 9), NatBits(groups[Len(groups)]))

\* Bits of the significand of a double.
MantissaBits == 53

\* Decimal places of the ether unit: 1 ether = 10^18 wei.
EtherDecimals == 18

\* A double is its significand (a natural number below 2^53) and exponent:
\* the value is mant * 2^exp, the pair float.as_integer_ratio() gives.
Double(mant, e) == [mant |-> FromDecimal(mant), exp |-> e]

\* The nearest double of the exact value mant * 2^exp, ties to even
\* (the rounding of every float operation).
RoundToDouble(mant, exp) ==
    IF Len(mant) <= MantissaBits THEN [mant |-> mant, exp |-> exp]
    ELSE LET drop == Len(mant) - MantissaBits
             kept == SubSeq(mant, drop + 1, Len(mant))
             rest == Norm(SubSeq(mant, 1, drop))
             half == ShiftLeft(<<1>>, drop - 1)
             up == Less(half, rest) \/ (rest = half /\ kept[1] = 1)
             m == IF up THEN Add(kept, <<1>>) ELSE kept
         IN IF Len(m) > MantissaBits
            THEN [mant |-> SubSeq(m, 2, Len(m)), exp |-> exp + drop + 1]
            ELSE [mant |-> m, exp |-> exp + drop]

\* Python's float * int for a small int: the exact product, rounded.
FloatTimesInt_Exact(f, n) == [mant |-> TimesNat(f.mant, n), exp |-> f.exp]

FloatTimesInt(f, n) == RoundToDouble(TimesNat(f.mant, n), f.exp)

\* Decimal(wei) / 10^18 < mant * 2^exp, compared exactly as Python compares a
\* Decimal with a float. (mant * 2^exp need not be a double here.)
WeiLessThan(wei, f) ==
    IF f.exp <= 0
    THEN Less(ShiftLeft(wei, 0 - f.exp), TimesPow10(f.mant, EtherDecimals))
    ELSE Less(wei, TimesPow10(ShiftLeft(f.mant, f.exp), EtherDecimals))

(***************************************************************************)
(* scripts/transfer_eth.py                                                 *)
(***************************************************************************)
MaxAddresses == 3
MaxNonce == 1

\* The variables of repeat_command.py while another script is looked at.
RcIdle ==
    /\ command = [blob |-> FALSE, key |-> FALSE, url |-> FALSE,
                  replace |-> FALSE]
    /\ times = 0
    /\ max_concurrent = 0
    /\ delay = 0
    /\ rc_pc = "idle"
    /\ exit_status = -1
    /\ private_key = None
    /\ rpc_url = None
    /\ semaphore = -1
    /\ task_pc = [i \in Tasks |-> "absent"]
    /\ attempt = [i \in Tasks |-> 0]
    /\ timer = [i \in Tasks |-> 0]
    /\ proc = [i \in Tasks |-> "none"]
    /\ last_exit = [i \in Tasks |-> NoExit]
    /\ launches = [i \in Tasks |-> 0]
    /\ since_launch = [i \in Tasks |-> -1]

AddressPool == {"0xAb5801a7D398351b8bE11C439e05C5B3259aeC9B", "0x123"}

\* Web3.is_address
validate_eth_address(address) == address # "0x123"

\* All sequences over S of length at most n.
SeqsUpTo(S, n) == UNION {[1 .. k -> S] : k \in 0 .. n}

\* args.amount: 1.0, 0.7 and 0.1 as float.as_integer_ratio() gives them
\* (4503599627370496 / 2^52, 6305039478318694 / 2^53, 7205759403792794 / 2^56).
Amounts ==
    {Double(<<4503599, 627370496>>, -52),
     Double(<<6305039, 478318694>>, -53),
     Double(<<7205759, 403792794>>, -56)}

\* Balances in wei: 0, 0.3 ETH, 2.0999999999999997 ETH, 2.1 ETH and 4 ETH.
Balances ==
    {FromDecimal(<<>>),
     FromDecimal(<<300000000, 0>>),
     FromDecimal(<<2, 99999999, 999999700>>),
     FromDecimal(<<2, 100000000, 0>>),
     FromDecimal(<<4, 0, 0>>)}

te_max_retries == 3

\* What the message of a caught exception contains, as far as the except
\* branch of transfer_eth tells messages apart.
Messages == {"nonce too low", "already known", "other"}

TeInit ==
    /\ addresses \in SeqsUpTo(AddressPool, MaxAddresses)
    /\ amount \in Amounts
    /\ balance \in Balances
    /\ te_pc = "connect"
    /\ te_exit = -1
    /\ current = 0
    /\ success_count = 0
    /\ te_attempt = 0
    /\ nonce = 0
    /\ last_tx_hash = -1
    /\ error_message = None
    /\ sent = [k \in DOMAIN addresses |-> FALSE]
    /\ broadcasts = 0
    /\ results = <<>>
    /\ RcIdle
    /\ SbIdle
    /\ VhIdle
    /\ SqIdle
    /\ WdIdle
    /\ T1Idle
    /\ NrIdle

\* The script ends with the given exit status.
TeExit(status) ==
    /\ te_pc' = "exited"
    /\ te_exit' = status

\* main, lines 243-256: the connection check and the chain id.
TeConnect ==
    /\ te_pc = "connect"
    /\ \E connected \in BOOLEAN :
           IF connected
           THEN te_pc' = "addresses" /\ UNCHANGED te_exit
           ELSE TeExit(1)
    /\ UNCHANGED <<addresses, amount, balance, current, success_count,
                   te_attempt, nonce, last_tx_hash, error_message, sent,
                   broadcasts, results>>
    /\ UNCHANGED teIdle

\* main, lines 258-274: the address list and its validation.
TeValidateAddresses ==
    /\ te_pc = "addresses"
    /\ LET invalid_addresses ==
               {k \in DOMAIN addresses : ~validate_eth_address(addresses[k])}
       IN IF invalid_addresses # {}
          THEN TeExit(1)
          ELSE te_pc' = "balance" /\ UNCHANGED te_exit
    /\ UNCHANGED <<addresses, amount, balance, current, success_count,
                   te_attempt, nonce, last_tx_hash, error_message, sent,
                   broadcasts, results>>
    /\ UNCHANGED teIdle

\* balance_eth < total_needed with total_needed = args.amount * len(addresses)
Insufficient(bal, amt, n) == WeiLessThan(bal, FloatTimesInt(amt, n))

\* main, lines 276-295: the balance check and the entry into the loop over
\* the addresses. An exception of get_balance ends the script with a
\* traceback and status 1.
TeCheckBalance ==
    /\ te_pc = "balance"
    /\ \E rpc_ok \in BOOLEAN :
           IF ~rpc_ok \/ Insufficient(balance, amount, Len(addresses))
           THEN TeExit(1) /\ UNCHANGED current
           ELSE IF addresses = <<>>
           THEN TeExit(0) /\ UNCHANGED current
           ELSE te_pc' = "call" /\ current' = 1 /\ UNCHANGED te_exit
    /\ UNCHANGED <<addresses, amount, balance, success_count, te_attempt,
                   nonce, last_tx_hash, error_message, sent, broadcasts,
                   results>>
    /\ UNCHANGED teIdle

\* What a call of transfer_eth gives back: a receipt with its status, or None.
Receipt(status) == [kind |-> "receipt", status |-> status]
ReturnsNone == [kind |-> "None", status |-> -1]
Raised == [kind |-> "raised", status |-> -1]

\* transfer_eth goes on at the given position.
TeInside(pc) ==
    /\ te_pc' = pc
    /\ UNCHANGED <<te_exit, current, success_count, results>>

\* main, lines 297-307: transfer_eth has returned `value`. A receipt counts a
\* success and main goes to the next address (and ends after the last one);
\* None ends the script with status 1.
TeReturn_ContinueOnFailure(value) ==
    /\ results' = Append(results, value)
    /\ success_count' = IF value.kind = "receipt" THEN success_count + 1
                        ELSE success_count
    /\ IF current = Len(addresses)
       THEN TeExit(0) /\ UNCHANGED current
       ELSE te_pc' = "call" /\ current' = current + 1 /\ UNCHANGED te_exit

TeReturn(value) ==
    /\ results' = Append(results, value)
    /\ IF value.kind = "receipt"
       THEN /\ success_count' = success_count + 1
            /\ IF current = Len(addresses)
               THEN TeExit(0) /\ UNCHANGED current
               ELSE te_pc' = "call" /\ current' = current + 1
                    /\ UNCHANGED te_exit
       ELSE /\ TeExit(1)
            /\ UNCHANGED <<current, success_count>>

\* An exception leaves transfer_eth: main does not catch it, the script ends
\* with a traceback and status 1.
TeRaise ==
    /\ results' = Append(results, Raised)
    /\ TeExit(1)
    /\ UNCHANGED <<current, success_count>>

\* transfer_eth, lines 133-153: the two nonce lookups, the offer to cancel
\* pending transactions (cancel_pending_transactions broadcasts one
\* cancellation per pending nonce unless that send fails) and the choice of
\* the first nonce.
TransferEthBegin ==
    /\ te_pc = "call"
    /\ \E rpc_ok \in BOOLEAN, latest_nonce \in 0 .. MaxNonce,
          pending_nonce \in 0 .. MaxNonce, response \in {"yes", "no"},
          cancelled \in 0 .. MaxNonce, fresh_ok \in BOOLEAN,
          fresh \in 0 .. MaxNonce :
           /\ pending_nonce >= latest_nonce
           /\ cancelled <= pending_nonce - latest_nonce
           /\ IF ~rpc_ok
              THEN /\ TeRaise
                   /\ UNCHANGED <<nonce, sent>>
              ELSE IF pending_nonce > latest_nonce /\ response = "yes"
              THEN /\ sent' = [sent EXCEPT ![current] = @ \/ cancelled > 0]
                   /\ IF fresh_ok
                      THEN nonce' = fresh /\ TeInside("attempt")
                      ELSE TeRaise /\ UNCHANGED nonce
              ELSE /\ nonce' = IF pending_nonce > latest_nonce
                               THEN pending_nonce ELSE latest_nonce
                   /\ TeInside("attempt")
                   /\ UNCHANGED sent
    /\ te_attempt' = 0
    /\ broadcasts' = 0
    /\ last_tx_hash' = -1
    /\ error_message' = None
    /\ UNCHANGED <<addresses, amount, balance>>
    /\ UNCHANGED teIdle

\* transfer_eth, lines 155-194: one pass through the try block.
\*   pre_send_error  chain_id, gas_price or the signing raises
\*   send_error      send_raw_transaction raises
\*   receipt         the transaction is broadcast and a receipt arrives
\*   timeout         the transaction is broadcast, the wait for it raises
TransferEthAttempt ==
    /\ te_pc = "attempt"
    /\ \E outcome \in {"pre_send_error", "send_error", "receipt", "timeout"},
          message \in Messages, status \in {0, 1} :
           IF outcome \in {"pre_send_error", "send_error"}
           THEN /\ error_message' = message
                /\ TeInside("except")
                /\ UNCHANGED <<sent, broadcasts, last_tx_hash>>
           ELSE /\ sent' = [sent EXCEPT ![current] = TRUE]
                /\ broadcasts' = broadcasts + 1
                /\ last_tx_hash' = te_attempt
                /\ IF outcome = "receipt" /\ status = 1
                   THEN TeReturn(Receipt(status)) /\ UNCHANGED error_message
                   ELSE error_message' = "other" /\ TeInside("except")
    /\ UNCHANGED <<addresses, amount, balance, te_attempt, nonce>>
    /\ UNCHANGED teIdle

\* `continue`: the next pass of `for attempt in range(max_retries)`, or the
\* end of the function (which returns None) after the last pass.
TeContinue ==
    IF te_attempt + 1 < te_max_retries
    THEN te_attempt' = te_attempt + 1 /\ TeInside("attempt")
    ELSE TeReturn(ReturnsNone) /\ UNCHANGED te_attempt

\* transfer_eth, lines 196-221: the except block. The nonce lookups in it are
\* not inside a try: when one raises, the exception leaves transfer_eth.
TransferEthExcept ==
    /\ te_pc = "except"
    /\ \E rpc_ok \in BOOLEAN, fresh \in 0 .. MaxNonce,
          wait \in {"status 1", "status 0", "raises"} :
           IF error_message = "nonce too low"
           THEN IF rpc_ok
                THEN nonce' = fresh /\ TeContinue
                ELSE TeRaise /\ UNCHANGED <<nonce, te_attempt>>
           ELSE IF /\ error_message = "already known"
                   /\ last_tx_hash # -1
                   /\ wait = "status 1"
           THEN TeReturn(Receipt(1)) /\ UNCHANGED <<nonce, te_attempt>>
           ELSE IF te_attempt < te_max_retries - 1
           THEN IF rpc_ok
                THEN nonce' = fresh /\ TeContinue
                ELSE TeRaise /\ UNCHANGED <<nonce, te_attempt>>
           ELSE TeReturn(ReturnsNone) /\ UNCHANGED <<nonce, te_attempt>>
    /\ UNCHANGED <<addresses, amount, balance, last_tx_hash, error_message,
                   sent, broadcasts>>
    /\ UNCHANGED teIdle

TeNext ==
    \/ TeConnect
    \/ TeValidateAddresses
    \/ TeCheckBalance
    \/ TransferEthBegin
    \/ TransferEthAttempt
    \/ TransferEthExcept

SpecTransfer == TeInit /\ [][TeNext]_vars

(***************************************************************************)
(* scripts/send_blob_transactions.py and scripts/send_transactions.py      *)
(***************************************************************************)
MaxBlobs == 7

OSAKA_MAX_BLOBS_PER_TX == 6
OSAKA_GAS_LIMIT_CAP == 2^24

\* Fallback gas when estimation fails.
BlobDefaultGas == 1000000
PlainDefaultGas == 21000

\* Values of --gas-limit.
GasLimits ==
    {NotGiven} \cup
    {Given(v) : v \in {0, 21000, OSAKA_GAS_LIMIT_CAP - 1, OSAKA_GAS_LIMIT_CAP,
                       OSAKA_GAS_LIMIT_CAP + 1}}

\* What w3.eth.estimate_gas may return.
Estimates == {21000, OSAKA_GAS_LIMIT_CAP, OSAKA_GAS_LIMIT_CAP + 1}

\* parse_args of send_blob_transactions.py: the arguments the model follows.
BlobArgs ==
    [tx_type : {"0x2", "0x3"},
     value : {0, 1},
     number_of_blobs : (0 - 1) .. MaxBlobs,
     gas_limit : GasLimits,
     validate_osaka_params : BOOLEAN]

\* parse_args of send_transactions.py, in the same record shape.
PlainArgs ==
    [tx_type : {"0x1", "0x2"},
     value : {0, 1},
     number_of_blobs : {0},
     gas_limit : GasLimits,
     validate_osaka_params : {FALSE}]

\* The variables of transfer_eth.py and repeat_command.py stay idle.
SbInit ==
    /\ script \in {"send_blob_transactions", "send_transactions"}
    /\ args \in IF script = "send_blob_transactions" THEN BlobArgs
                ELSE PlainArgs
    /\ sb_pc = "start"
    /\ validated = "not called"
    /\ blobs = -1
    /\ versioned_hashes = -1
    /\ tx = NoTx
    /\ estimate_requested = FALSE
    /\ estimated = -1
    /\ signed = FALSE
    /\ tx_hash = FALSE
    /\ raised = None
    /\ RcIdle
    /\ TeIdle
    /\ VhIdle
    /\ SqIdle
    /\ WdIdle
    /\ T1Idle
    /\ NrIdle

\* validate_osaka_params: the exception it raises, or None when it returns.
validate_osaka_params_NoLowerBound(tx_type, value, number_of_blobs, gas_limit) ==
    IF number_of_blobs > 0 /\ tx_type # "0x3" THEN "ValueError"
    ELSE IF number_of_blobs > 0 /\ value # 0 THEN "ValueError"
    ELSE IF number_of_blobs > OSAKA_MAX_BLOBS_PER_TX THEN "ValueError"
    ELSE IF gas_limit.given /\ gas_limit.v > OSAKA_GAS_LIMIT_CAP
    THEN "ValueError"
    ELSE None

validate_osaka_params(tx_type, value, number_of_blobs, gas_limit) ==
    IF number_of_blobs > 0 /\ tx_type # "0x3" THEN "ValueError"
    ELSE IF number_of_blobs > 0 /\ value # 0 THEN "ValueError"
    ELSE IF number_of_blobs > OSAKA_MAX_BLOBS_PER_TX THEN "ValueError"
    ELSE IF number_of_blobs < 1 THEN "ValueError"
    ELSE IF gas_limit.given /\ gas_limit.v > OSAKA_GAS_LIMIT_CAP
    THEN "ValueError"
    ELSE None

\* An exception leaves the function (send_blob prints it and re-raises).
SbRaise_Swallowed(error) ==
    /\ sb_pc' = "submit"
    /\ raised' = error

SbRaise(error) ==
    /\ sb_pc' = "raised"
    /\ raised' = error

\* send_blob, lines 333-347: the optional validation, then the Web3 object
\* and the account.
SendBlobValidate ==
    /\ script = "send_blob_transactions"
    /\ sb_pc = "start"
    /\ \E web3_ok \in BOOLEAN :
           LET error == validate_osaka_params(args.tx_type, args.value,
                                              args.number_of_blobs,
                                              args.gas_limit)
           IN IF args.validate_osaka_params
              THEN /\ validated' = IF error = None THEN "returned" ELSE error
                   /\ IF error # None THEN SbRaise(error)
                      ELSE IF web3_ok
                      THEN sb_pc' = "prepare" /\ UNCHANGED raised
                      ELSE SbRaise("Exception")
              ELSE /\ UNCHANGED validated
                   /\ IF web3_ok
                      THEN sb_pc' = "prepare" /\ UNCHANGED raised
                      ELSE SbRaise("Exception")
    /\ UNCHANGED <<script, args, blobs, versioned_hashes, tx,
                   estimate_requested, estimated,
                   signed, tx_hash>>
    /\ UNCHANGED sbIdle

\* prepare_blobs: range(number_of_blobs) is empty for a negative number.
prepare_blobs(number_of_blobs) ==
    IF number_of_blobs < 0 THEN 0 ELSE number_of_blobs

\* send_blob, lines 352-355: prepare_blobs and validate_blob_data, which
\* finds every blob of the required size.
SendBlobPrepare ==
    /\ script = "send_blob_transactions"
    /\ sb_pc = "prepare"
    /\ blobs' = prepare_blobs(args.number_of_blobs)
    /\ sb_pc' = "hashes"
    /\ UNCHANGED <<script, args, validated, versioned_hashes, tx,
                   estimate_requested, estimated, signed, tx_hash, raised>>
    /\ UNCHANGED sbIdle

\* send_blob, line 360: compute_versioned_hashes gives one hash per blob, or
\* raises when the trusted setup or a commitment fails.
SendBlobHashes ==
    /\ script = "send_blob_transactions"
    /\ sb_pc = "hashes"
    /\ \E hashes_ok \in BOOLEAN :
           IF hashes_ok
           THEN /\ versioned_hashes' = blobs
                /\ sb_pc' = "construct"
                /\ UNCHANGED raised
           ELSE SbRaise("Exception") /\ UNCHANGED versioned_hashes
    /\ UNCHANGED <<script, args, validated, blobs, tx, estimate_requested,
                   estimated, signed, tx_hash>>
    /\ UNCHANGED sbIdle

\* Python's truth value of args.gas_limit.
Truthy(gas_limit) == gas_limit.given /\ gas_limit.v # 0

\* `if args.gas_limit:` ... else estimate, with the default when estimate_gas
\* raises (estimate = -1).
ChooseGas(gas_limit, estimate, default) ==
    IF Truthy(gas_limit) THEN gas_limit.v
    ELSE IF estimate = -1 THEN default
    ELSE estimate

\* construct_blob_transaction, lines 298-302.
OsakaCap_Off(gas) == gas

OsakaCap(gas) ==
    IF gas > OSAKA_GAS_LIMIT_CAP THEN OSAKA_GAS_LIMIT_CAP ELSE gas

\* construct_blob_transaction, lines 238-304, as send_blob calls it. The
\* chain id or the nonce lookup may raise.
ConstructBlobTransaction ==
    /\ script = "send_blob_transactions"
    /\ sb_pc = "construct"
    /\ \E rpc_ok \in BOOLEAN, estimate \in Estimates \cup {-1} :
           IF ~rpc_ok
           THEN /\ SbRaise("Exception")
                /\ UNCHANGED <<tx, estimate_requested, estimated>>
           ELSE /\ estimate_requested' = ~Truthy(args.gas_limit)
                /\ estimated' = IF Truthy(args.gas_limit) THEN -1
                                ELSE estimate
                /\ tx' = [type |-> 3,
                          value |-> args.value,
                          gas |-> OsakaCap(ChooseGas(args.gas_limit, estimate,
                                                     BlobDefaultGas))]
                /\ sb_pc' = "sign"
                /\ UNCHANGED raised
    /\ UNCHANGED <<script, args, validated, blobs, versioned_hashes, signed,
                   tx_hash>>
    /\ UNCHANGED sbIdle

\* send_blob, lines 377-396: acct.sign_transaction(tx, blobs=blobs). What
\* the library accepts is not decided here: it signs or it raises.
SendBlobSign ==
    /\ script = "send_blob_transactions"
    /\ sb_pc = "sign"
    /\ \E outcome \in {"signed", "ValueError", "Exception"} :
           IF outcome = "signed"
           THEN signed' = TRUE /\ sb_pc' = "submit" /\ UNCHANGED raised
           ELSE SbRaise(outcome) /\ UNCHANGED signed
    /\ UNCHANGED <<script, args, validated, blobs, versioned_hashes, tx,
                   estimate_requested,
                   estimated, tx_hash>>
    /\ UNCHANGED sbIdle

\* send_blob, lines 401-412: w3.eth.send_raw_transaction.
SendBlobSubmit ==
    /\ script = "send_blob_transactions"
    /\ sb_pc = "submit"
    /\ \E outcome \in {"submitted", "ValueError", "Exception"} :
           IF outcome = "submitted"
           THEN tx_hash' = TRUE /\ sb_pc' = "receipt" /\ UNCHANGED raised
           ELSE SbRaise(outcome) /\ UNCHANGED tx_hash
    /\ UNCHANGED <<script, args, validated, blobs, versioned_hashes, tx,
                   estimate_requested,
                   estimated, signed>>
    /\ UNCHANGED sbIdle

\* send_blob, lines 417-436, and send_transaction, lines 81-86: the wait for
\* the receipt.
WaitForReceipt ==
    /\ sb_pc = "receipt"
    /\ \E receipt_ok \in BOOLEAN :
           IF receipt_ok
           THEN sb_pc' = "done" /\ UNCHANGED raised
           ELSE SbRaise("Exception")
    /\ UNCHANGED <<script, args, validated, blobs, versioned_hashes, tx,
                   estimate_requested,
                   estimated, signed, tx_hash>>
    /\ UNCHANGED sbIdle

\* send_transaction, lines 34-68: the transaction dictionary and its gas.
\* A legacy transaction (0x1) has no "type" key, written as type 0.
SendTransactionBuild ==
    /\ script = "send_transactions"
    /\ sb_pc = "start"
    /\ \E rpc_ok \in BOOLEAN, estimate \in Estimates \cup {-1} :
           IF ~rpc_ok
           THEN /\ SbRaise("Exception")
                /\ UNCHANGED <<tx, estimate_requested, estimated>>
           ELSE /\ estimate_requested' = ~Truthy(args.gas_limit)
                /\ estimated' = IF Truthy(args.gas_limit) THEN -1
                                ELSE estimate
                /\ tx' = [type |-> IF args.tx_type = "0x1" THEN 0 ELSE 2,
                          value |-> args.value,
                          gas |-> ChooseGas(args.gas_limit, estimate,
                                            PlainDefaultGas)]
                /\ sb_pc' = "sign"
                /\ UNCHANGED raised
    /\ UNCHANGED <<script, args, validated, blobs, versioned_hashes, signed,
                   tx_hash>>
    /\ UNCHANGED sbIdle

\* send_transaction, lines 74-75: sign, then send_raw_transaction.
SendTransactionSignAndSend ==
    /\ script = "send_transactions"
    /\ sb_pc = "sign"
    /\ \E outcome \in {"sent", "sign raises", "send raises"} :
           /\ signed' = (outcome # "sign raises")
           /\ tx_hash' = (outcome = "sent")
           /\ IF outcome = "sent"
              THEN sb_pc' = "receipt" /\ UNCHANGED raised
              ELSE SbRaise("Exception")
    /\ UNCHANGED <<script, args, validated, blobs, versioned_hashes, tx,
                   estimate_requested,
                   estimated>>
    /\ UNCHANGED sbIdle

SbNext ==
    \/ SendBlobValidate
    \/ SendBlobPrepare
    \/ SendBlobHashes
    \/ ConstructBlobTransaction
    \/ SendBlobSign
    \/ SendBlobSubmit
    \/ WaitForReceipt
    \/ SendTransactionBuild
    \/ SendTransactionSignAndSend

SpecSend == SbInit /\ [][SbNext]_vars

(***************************************************************************)
(* compute_versioned_hashes of scripts/send_blob_transactions.py           *)
(***************************************************************************)
MaxHashBlobs == 3

\* The blobs a caller may pass, told apart by a number.
BlobPool == 1 .. 3

\* Length in bytes of a SHA-256 digest.
DigestSize == 32

OSAKA_VERSIONED_HASH_PREFIX == <<1>>

\* ckzg.blob_to_kzg_commitment: the commitment of a blob, a value that
\* belongs to that blob alone.
blob_to_kzg_commitment(blob) == [commitment_of |-> blob]

\* hashlib.sha256(commitment).digest(): 32 bytes that depend on the
\* commitment. The bytes stand in for the real digest; they differ from
\* commitment to commitment and the first byte is not the version prefix.
sha256(commitment) ==
    [j \in 1 .. DigestSize |->
        (commitment.commitment_of * 37 + j * 11 + 100) % 256]

\* OSAKA_VERSIONED_HASH_PREFIX + digest[1:]
versioned_hash_WholeDigest(commitment) ==
    OSAKA_VERSIONED_HASH_PREFIX \o sha256(commitment)

versioned_hash(commitment) ==
    OSAKA_VERSIONED_HASH_PREFIX \o Tail(sha256(commitment))

VhInit ==
    /\ vh_blobs \in SeqsUpTo(BlobPool, MaxHashBlobs)
    /\ vh_pc = "start"
    /\ vh_hashes = <<>>
    /\ RcIdle
    /\ TeIdle
    /\ SbIdle
    /\ SqIdle
    /\ WdIdle
    /\ T1Idle
    /\ NrIdle

\* Line 216: the trusted setup is loaded, or ckzg raises.
LoadTrustedSetup ==
    /\ vh_pc = "start"
    /\ \E loaded \in BOOLEAN :
           vh_pc' = IF loaded THEN "loop" ELSE "raised"
    /\ UNCHANGED <<vh_blobs, vh_hashes>>
    /\ UNCHANGED vhIdle

\* Lines 220-229: one pass of `for blob in blobs`, for the blob that follows
\* those already hashed; the commitment may raise.
HashNextBlob ==
    /\ vh_pc = "loop"
    /\ Len(vh_hashes) < Len(vh_blobs)
    /\ \E committed \in BOOLEAN :
           IF committed
           THEN LET blob == vh_blobs[Len(vh_hashes) + 1]
                    commitment == blob_to_kzg_commitment(blob)
                IN /\ vh_hashes' = Append(vh_hashes, versioned_hash(commitment))
                   /\ UNCHANGED vh_pc
           ELSE vh_pc' = "raised" /\ UNCHANGED vh_hashes
    /\ UNCHANGED vh_blobs
    /\ UNCHANGED vhIdle

\* Line 231: return versioned_hashes.
ReturnHashes ==
    /\ vh_pc = "loop"
    /\ Len(vh_hashes) = Len(vh_blobs)
    /\ vh_pc' = "returned"
    /\ UNCHANGED <<vh_blobs, vh_hashes>>
    /\ UNCHANGED vhIdle

VhNext ==
    \/ LoadTrustedSetup
    \/ HashNextBlob
    \/ ReturnHashes

SpecHashes == VhInit /\ [][VhNext]_vars

(***************************************************************************)
(* scripts/repeat_command.py, sequential mode                              *)
(***************************************************************************)
SqInit ==
    /\ sq_command \in Commands
    /\ sq_times \in 0 .. MaxTimes
    /\ sq_delay \in 0 .. MaxDelay
    /\ sq_pc = "start"
    /\ sq_exit = -1
    /\ sq_private_key = None
    /\ sq_rpc_url = None
    /\ sq_i = 0
    /\ sq_timer = 0
    /\ sq_executions = 0
    /\ sq_since = -1
    /\ RcIdle
    /\ TeIdle
    /\ SbIdle
    /\ VhIdle
    /\ WdIdle
    /\ T1Idle
    /\ NrIdle

\* The script ends: sys.exit(status), an uncaught exception (status 1) or
\* the return of main (status 0).
SqExit(status) ==
    /\ sq_pc' = "exited"
    /\ sq_exit' = status

\* execute_command, lines 171-179: the {REPLACE} check.
ExecuteCommand ==
    /\ sq_pc = "start"
    /\ LET parsed == parse_blob_tx_command(sq_command)
           nonceMode == parsed[1] # None /\ parsed[2] # None
                        /\ sq_command.replace
       IN /\ sq_private_key' = parsed[1]
          /\ sq_rpc_url' = parsed[2]
          /\ IF ~nonceMode /\ sq_command.replace
             THEN SqExit(1)
             ELSE sq_pc' = "loop" /\ UNCHANGED sq_exit
    /\ UNCHANGED <<sq_command, sq_times, sq_delay, sq_i, sq_timer,
                   sq_executions, sq_since>>
    /\ UNCHANGED sqIdle

\* The next pass of `for i in range(times)`: with i as the value just used,
\* the loop goes on at i + 1.
SqNextPass ==
    /\ sq_i' = sq_i + 1
    /\ sq_pc' = "loop"
    /\ UNCHANGED sq_exit

\* `break`, or the end of the loop: execute_command returns and main ends.
SqReturn == SqExit(0)

\* Lines 181-199: the top of a pass up to subprocess.run, which starts the
\* command; get_current_nonce ends the script when the lookup fails.
SqStartExecution ==
    /\ sq_pc = "loop"
    /\ IF sq_i >= sq_times
       THEN SqReturn /\ UNCHANGED sq_executions
       ELSE \E nonce_ok \in BOOLEAN :
                IF sq_private_key # None /\ sq_rpc_url # None /\ ~nonce_ok
                THEN SqExit(1) /\ UNCHANGED sq_executions
                ELSE /\ sq_pc' = "running"
                     /\ sq_executions' = sq_executions + 1
                     /\ UNCHANGED sq_exit
    /\ UNCHANGED <<sq_command, sq_times, sq_delay, sq_private_key,
                   sq_rpc_url, sq_i, sq_timer, sq_since>>
    /\ UNCHANGED sqIdle

\* How subprocess.run ends.
RunOutcomes ==
    {"success", "CalledProcessError", "KeyboardInterrupt", "other exception"}

\* Lines 208-210: after a failed execution the user is asked whether to
\* continue; the next pass follows the answer without a sleep.
SqAfterFailure ==
    /\ sq_pc' = "asking"
    /\ UNCHANGED <<sq_i, sq_exit, sq_timer>>

\* Lines 199-215: subprocess.run has ended. After a success the script
\* sleeps unless this was the last pass.
SqExecutionEnds ==
    /\ sq_pc = "running"
    /\ sq_since' = 0
    /\ \E outcome \in RunOutcomes :
           IF outcome = "success"
           THEN IF sq_i < sq_times - 1
                THEN /\ sq_pc' = "sleeping"
                     /\ sq_timer' = sq_delay
                     /\ UNCHANGED <<sq_i, sq_exit>>
                ELSE SqNextPass /\ UNCHANGED sq_timer
           ELSE IF outcome = "CalledProcessError"
           THEN SqAfterFailure
           ELSE IF outcome = "KeyboardInterrupt"
           THEN SqReturn /\ UNCHANGED <<sq_i, sq_timer>>
           ELSE SqExit(1) /\ UNCHANGED <<sq_i, sq_timer>>
    /\ UNCHANGED <<sq_command, sq_times, sq_delay, sq_private_key,
                   sq_rpc_url, sq_executions>>
    /\ UNCHANGED sqIdle

\* Line 206: time.sleep(delay) is over, or Ctrl-C ends it (line 213).
SqSleepEnds ==
    /\ sq_pc = "sleeping"
    /\ \E interrupted \in BOOLEAN :
           IF interrupted
           THEN SqReturn /\ UNCHANGED sq_i
           ELSE sq_timer = 0 /\ SqNextPass
    /\ UNCHANGED <<sq_command, sq_times, sq_delay, sq_private_key,
                   sq_rpc_url, sq_timer, sq_executions, sq_since>>
    /\ UNCHANGED sqIdle

\* Lines 210-212: the answer to "Continue with next execution? (y/n)".
SqAnswer ==
    /\ sq_pc = "asking"
    /\ \E answer \in {"y", "n"} :
           IF answer = "y"
           THEN SqNextPass
           ELSE SqReturn /\ UNCHANGED sq_i
    /\ UNCHANGED <<sq_command, sq_times, sq_delay, sq_private_key,
                   sq_rpc_url, sq_timer, sq_executions, sq_since>>
    /\ UNCHANGED sqIdle

\* One second passes while the command runs, the script sleeps or the user
\* is asked.
SqTick ==
    /\ sq_pc \in {"running", "sleeping", "asking"}
    /\ sq_pc = "sleeping" => sq_timer > 0
    /\ sq_timer' = IF sq_timer > 0 THEN sq_timer - 1 ELSE 0
    /\ sq_since' = IF sq_since = -1 \/ sq_since >= sq_delay THEN sq_since
                   ELSE sq_since + 1
    /\ sq_timer' # sq_timer \/ sq_since' # sq_since
    /\ UNCHANGED <<sq_command, sq_times, sq_delay, sq_pc, sq_exit,
                   sq_private_key, sq_rpc_url, sq_i, sq_executions>>
    /\ UNCHANGED sqIdle

SqNext ==
    \/ ExecuteCommand
    \/ SqStartExecution
    \/ SqExecutionEnds
    \/ SqSleepEnds
    \/ SqAnswer
    \/ SqTick

SpecSequential == SqInit /\ [][SqNext]_vars

\* main, lines 227-243: the script in either mode.
RepeatInit == RcInit \/ SqInit

RepeatNext == RcNext \/ SqNext

SpecRepeat == RepeatInit /\ [][RepeatNext]_vars

(***************************************************************************)
(* scripts/withdrawals.py and scripts/voluntary_exits.py                   *)
(***************************************************************************)
MaxBalance == 3
MaxExcess == 25

EXCESS_INHIBITOR == [j \in 1 .. 256 |-> 1]

\* DECIMAL_FACTOR = 10**9, as its exponent.
DecimalFactorDigits == 9

\* estimated_gas of send_voluntary_exit.
estimated_gas == 100000

\* A float argument: its sign and the double of its magnitude.
Float(neg, mant, e) == [neg |-> neg, abs |-> Double(mant, e)]

\* Values of --amount: -1.0, 0.0, 1e-10, 1e-09, 1.0 and 32.0.
WithdrawalAmounts ==
    {Float(TRUE, <<1>>, 0), Float(FALSE, <<>>, 0),
     Float(FALSE, <<7737125, 245533627>>, 0 - 86),
     Float(FALSE, <<4835703, 278458517>>, 0 - 82),
     Float(FALSE, <<1>>, 0), Float(FALSE, <<32>>, 0)}

\* What the node may report as the balance of the account, in wei.
AccountBalances == (0 .. MaxBalance) \cup {estimated_gas}

\* What storage slot 0 of the contract may hold. (A huge excess other than
\* the inhibitor keeps calculate_fee in its loop: no step follows.)
Excesses == {NatBits(v) : v \in {0, 13, 20, MaxExcess}} \cup {EXCESS_INHIBITOR}

\* What the user may type at a prompt.
Answers == {"y", "Y", "n", ""}

\* str.lower() on those answers.
lower(s) == IF s = "Y" THEN "y" ELSE s

\* --private-key: absent, "0x" (a string that is true and whose bytes are
\* empty) or a key.
PrivateKeys == {None, "0x", "key"}

WithdrawalArgs ==
    [amount : WithdrawalAmounts, validator_index : {0},
     private_key : PrivateKeys, keystore_path : BOOLEAN,
     fund_account : BOOLEAN]

ExitArgs ==
    [amount : {Float(FALSE, <<>>, 0)}, validator_index : (0 - 1) .. 1,
     private_key : PrivateKeys, keystore_path : BOOLEAN,
     fund_account : BOOLEAN]

WdInit ==
    /\ wd_script \in {"withdrawals", "voluntary_exits"}
    /\ wd_args \in IF wd_script = "withdrawals" THEN WithdrawalArgs
                   ELSE ExitArgs
    /\ wd_pc = "main"
    /\ wd_password = None
    /\ wd_answer = [p \in Prompts |-> None]
    /\ wd_balance = -1
    /\ wd_excess = <<>>
    /\ wd_tx = <<>>
    /\ wd_exit = -1
    /\ wd_raised = None
    /\ RcIdle
    /\ TeIdle
    /\ SbIdle
    /\ VhIdle
    /\ SqIdle
    /\ T1Idle
    /\ T1Idle
    /\ NrIdle

\* amount < 0, amount == 0 and amount >= n of a float argument.
IsNegative(a) == a.neg /\ a.abs.mant # <<>>

IsZero(a) == a.abs.mant = <<>>

AtLeast(a, n) ==
    /\ ~IsNegative(a)
    /\ IF a.abs.exp >= 0
       THEN ~Less(ShiftLeft(a.abs.mant, a.abs.exp), NatBits(n))
       ELSE ~Less(a.abs.mant, ShiftLeft(NatBits(n), 0 - a.abs.exp))

\* amount * DECIMAL_FACTOR: the exact product rounded to a double.
TimesDecimalFactor(f) ==
    RoundToDouble(TimesPow10(f.mant, DecimalFactorDigits), f.exp)

\* int(math.floor(x)) of a double x >= 0.
Floor(d) ==
    IF d.exp >= 0 THEN ShiftLeft(d.mant, d.exp)
    ELSE IF Len(d.mant) <= 0 - d.exp THEN <<>>
    ELSE SubSeq(d.mant, 1 - d.exp, Len(d.mant))

real_amount(a) == Floor(TimesDecimalFactor(a.abs))

\* The natural number of a short bit sequence.
RECURSIVE IntOf(_)
IntOf(a) == IF a = <<>> THEN 0 ELSE a[1] + 2 * IntOf(Tail(a))

\* calculate_fee: the while loop from its state (i, output, numerator_accum).
RECURSIVE calculate_fee_while(_, _, _, _, _)
calculate_fee_while(i, output, numerator_accum, numerator, denominator) ==
    IF numerator_accum > 0
    THEN calculate_fee_while(i + 1, output + numerator_accum,
                             (numerator_accum * numerator)
                                 \div (denominator * i),
                             numerator, denominator)
    ELSE output

calculate_fee(factor, numerator, denominator) ==
    calculate_fee_while(1, 0, factor * denominator, numerator, denominator)
        \div denominator

\* sys.exit(status), an exception that leaves the script, a plain return of
\* the function the script ends with.
WdExit(status) ==
    /\ wd_pc' = "exited"
    /\ wd_exit' = status
    /\ UNCHANGED wd_raised

WdRaise(error) ==
    /\ wd_pc' = "raised"
    /\ wd_raised' = error
    /\ UNCHANGED wd_exit

WdReturn ==
    /\ wd_pc' = "returned"
    /\ UNCHANGED <<wd_exit, wd_raised>>

WdGoto(pc) ==
    /\ wd_pc' = pc
    /\ UNCHANGED <<wd_exit, wd_raised>>

\* The private_key argument main passes on: bytes.fromhex of the option
\* without "0x", or None; empty bytes are false.
KeyBytesTrue(key) == key = "key"

\* The start of both scripts up to the first confirmation prompt
\* (withdrawals.py 163-216, voluntary_exits.py 117-167): the key or keystore
\* check, the password prompt, --fund-account, the validation of the amount
\* or of the validator index.
WdMain ==
    /\ wd_pc = "main"
    /\ \E typed \in {"", "secret"}, account_ok \in BOOLEAN :
           LET password == IF wd_args.keystore_path THEN typed ELSE None
           IN IF wd_args.private_key = None /\ ~wd_args.keystore_path
              THEN WdExit(1) /\ UNCHANGED wd_password
              ELSE /\ wd_password' = password
                   /\ IF wd_args.fund_account
                      THEN IF wd_args.private_key = None /\ password = ""
                           THEN WdExit(1)
                           ELSE IF account_ok THEN WdExit(0)
                           ELSE WdRaise("Exception")
                      ELSE IF wd_script = "withdrawals"
                      THEN IF IsNegative(wd_args.amount) THEN WdExit(1)
                           ELSE IF ~IsZero(wd_args.amount)
                                   /\ AtLeast(wd_args.amount, 32)
                           THEN WdGoto("main_large")
                           ELSE WdGoto("call")
                      ELSE IF wd_args.validator_index < 0 THEN WdExit(1)
                      ELSE WdGoto("main_exit")
    /\ UNCHANGED <<wd_script, wd_args, wd_answer, wd_balance, wd_excess,
                   wd_tx>>
    /\ UNCHANGED wdIdle

\* `if confirm.lower() != 'y'` after an input().
Declined(confirm) == lower(confirm) # "y"

\* The two prompts of the main programs (withdrawals.py 213-216,
\* voluntary_exits.py 167-170): anything but a yes exits with status 1.
WdMainConfirm ==
    /\ wd_pc \in {"main_large", "main_exit"}
    /\ \E confirm \in Answers :
           /\ wd_answer' = [wd_answer EXCEPT ![wd_pc] = confirm]
           /\ IF Declined(confirm) THEN WdExit(1) ELSE WdGoto("call")
    /\ UNCHANGED <<wd_script, wd_args, wd_password, wd_balance, wd_excess,
                   wd_tx>>
    /\ UNCHANGED wdIdle

\* send_withdrawal 38-91 and send_voluntary_exit 20-57, up to the prompt or
\* past the place of the prompt: the account (from the key, or from the
\* keystore and the password), the balance, the validation.
WdSendBegin ==
    /\ wd_pc = "call"
    /\ \E account_ok \in BOOLEAN, wei \in AccountBalances :
           IF ~KeyBytesTrue(wd_args.private_key)
              /\ (~wd_args.keystore_path \/ wd_password \in {None, ""})
           THEN WdRaise("ValueError") /\ UNCHANGED wd_balance
           ELSE IF ~account_ok
           THEN WdRaise("Exception") /\ UNCHANGED wd_balance
           ELSE /\ wd_balance' = wei
                /\ IF wd_script = "withdrawals"
                   THEN IF IsZero(wd_args.amount) THEN WdGoto("exit")
                        ELSE IF IsNegative(wd_args.amount) THEN WdReturn
                        ELSE IF AtLeast(wd_args.amount, 32)
                        THEN WdGoto("large")
                        ELSE WdGoto("send")
                   ELSE IF wd_args.validator_index < 0 THEN WdReturn
                   ELSE WdGoto("send_exit")
    /\ UNCHANGED <<wd_script, wd_args, wd_password, wd_answer, wd_excess,
                   wd_tx>>
    /\ UNCHANGED wdIdle

\* The prompts of send_withdrawal (79-82, 88-91) and of send_voluntary_exit
\* (57-60): anything but a yes returns.
WdSendConfirm ==
    /\ wd_pc \in {"large", "exit", "send_exit"}
    /\ \E confirm \in Answers :
           /\ wd_answer' = [wd_answer EXCEPT ![wd_pc] = confirm]
           /\ IF Declined(confirm) THEN WdReturn ELSE WdGoto("send")
    /\ UNCHANGED <<wd_script, wd_args, wd_password, wd_balance, wd_excess,
                   wd_tx>>
    /\ UNCHANGED wdIdle

\* `if balance < withdrawal_fee`.
InsufficientFunds_Never(wei, fee) == FALSE

InsufficientFunds(wei, fee) == wei < fee

\* send_withdrawal 93-143: the excess, the fee, the balance check, the
\* encoded amount and the transaction. get_storage_at is outside the try; an
\* exception of send_transaction is printed.
SendWithdrawal ==
    /\ wd_script = "withdrawals"
    /\ wd_pc = "send"
    /\ \E rpc_ok \in BOOLEAN, excess \in Excesses, accepted \in BOOLEAN :
           IF ~rpc_ok
           THEN WdRaise("Exception") /\ UNCHANGED <<wd_excess, wd_tx>>
           ELSE /\ wd_excess' = excess
                /\ WdReturn
                /\ IF excess = EXCESS_INHIBITOR THEN UNCHANGED wd_tx
                   ELSE LET withdrawal_fee ==
                                calculate_fee(1, IntOf(excess), 17)
                        IN IF InsufficientFunds(wd_balance, withdrawal_fee)
                              \/ ~accepted
                           THEN UNCHANGED wd_tx
                           ELSE wd_tx' = Append(wd_tx,
                                    [value |-> withdrawal_fee,
                                     data |-> real_amount(wd_args.amount)])
    /\ UNCHANGED <<wd_script, wd_args, wd_password, wd_answer, wd_balance>>
    /\ UNCHANGED wdIdle

\* send_voluntary_exit 62-97: the gas price, the estimated fee, the balance
\* check and the transaction, all inside the try (gas_price -1: the lookup
\* raises).
SendVoluntaryExit ==
    /\ wd_script = "voluntary_exits"
    /\ wd_pc = "send"
    /\ \E gas_price \in {-1, 0, 1}, accepted \in BOOLEAN :
           /\ WdReturn
           /\ IF gas_price = -1 \/ wd_balance < estimated_gas * gas_price
                 \/ ~accepted
              THEN UNCHANGED wd_tx
              ELSE wd_tx' = Append(wd_tx,
                                   [value |-> 0,
                                    data |-> NatBits(wd_args.validator_index)])
    /\ UNCHANGED <<wd_script, wd_args, wd_password, wd_answer, wd_balance,
                   wd_excess>>
    /\ UNCHANGED wdIdle

WdNext ==
    \/ WdMain
    \/ WdMainConfirm
    \/ WdSendBegin
    \/ WdSendConfirm
    \/ SendWithdrawal
    \/ SendVoluntaryExit

SpecValidator == WdInit /\ [][WdNext]_vars

(***************************************************************************)
(* scripts/transfer_eth.py: one call of transfer_eth and the sender's      *)
(* transactions on the chain                                               *)
(***************************************************************************)
MaxPending == 1

\* What web3.eth.gas_price may return.
GasPrices == {1, 2}

\* The call has not returned yet.
Running == [kind |-> "running", status |-> -1]

T1Init ==
    /\ t1_pc = "begin"
    /\ t1_gas_price_gwei \in {0, 1}
    /\ t1_nonce = 0
    /\ t1_attempt = 0
    /\ t1_last_tx_hash = <<>>
    /\ t1_error = None
    /\ t1_result = Running
    /\ tx_count = 0
    /\ prior_pending \in 0 .. MaxPending
    /\ mempool = {}
    /\ mined = {}
    /\ RcIdle
    /\ TeIdle
    /\ SbIdle
    /\ VhIdle
    /\ SqIdle
    /\ WdIdle
    /\ NrIdle

T1Goto(pc) ==
    /\ t1_pc' = pc
    /\ UNCHANGED t1_result

T1Return(value) ==
    /\ t1_pc' = "returned"
    /\ t1_result' = value

\* get_transaction_count(from_address, 'latest') and (..., 'pending'): the
\* mined transactions, and those plus the ones that wait in line behind them.
LatestNonce == tx_count

RECURSIVE PendingFrom(_)
PendingFrom(n) ==
    IF n < prior_pending \/ (\E t \in mempool : t.nonce = n)
    THEN PendingFrom(n + 1)
    ELSE n

PendingNonce == PendingFrom(tx_count)

\* transfer_eth, lines 133-153: the initial nonce. The lookups are outside
\* any try.
T1Begin ==
    /\ t1_pc = "begin"
    /\ \E rpc_ok \in BOOLEAN, response \in {"yes", "no"} :
           IF ~rpc_ok
           THEN T1Return(Raised) /\ UNCHANGED t1_nonce
           ELSE IF PendingNonce > LatestNonce /\ response = "yes"
           THEN T1Goto("cancelling") /\ UNCHANGED t1_nonce
           ELSE /\ t1_nonce' = IF PendingNonce > LatestNonce
                               THEN PendingNonce ELSE LatestNonce
                /\ T1Goto("attempt")
    /\ UNCHANGED <<t1_gas_price_gwei, t1_attempt, t1_last_tx_hash, t1_error,
                   tx_count, prior_pending, mempool, mined>>
    /\ UNCHANGED t1Idle

\* transfer_eth, lines 145-147: cancel_pending_transactions has replaced what
\* it could (blocks may have been mined meanwhile), then the fresh nonce.
T1AfterCancel ==
    /\ t1_pc = "cancelling"
    /\ \E rpc_ok \in BOOLEAN :
           IF rpc_ok
           THEN t1_nonce' = LatestNonce /\ T1Goto("attempt")
           ELSE T1Return(Raised) /\ UNCHANGED t1_nonce
    /\ UNCHANGED <<t1_gas_price_gwei, t1_attempt, t1_last_tx_hash, t1_error,
                   tx_count, prior_pending, mempool, mined>>
    /\ UNCHANGED t1Idle

\* What the node answers to send_raw_transaction: "other" stands for
\* "replacement transaction underpriced", the answer when the nonce is taken
\* by a transaction that pays at least as much (the cancellations pay five
\* times the gas price).
NodeReply(transaction) ==
    IF transaction.nonce < tx_count THEN "nonce too low"
    ELSE IF transaction \in mempool THEN "already known"
    ELSE IF transaction.nonce < prior_pending THEN "other"
    ELSE IF \E t \in mempool : /\ t.nonce = transaction.nonce
                               /\ t.gasPrice >= transaction.gasPrice
    THEN "other"
    ELSE "accepted"

\* transfer_eth, lines 156-187: the transaction is built, signed and sent.
\* A transaction the node accepts takes the place of a cheaper one with the
\* same nonce.
T1Send ==
    /\ t1_pc = "attempt"
    /\ \E gas_price \in GasPrices, rpc_ok \in BOOLEAN :
           LET transaction ==
                   [nonce |-> t1_nonce,
                    gasPrice |-> IF t1_gas_price_gwei # 0
                                 THEN t1_gas_price_gwei
                                 ELSE gas_price * 2]
               reply == NodeReply(transaction)
           IN IF ~rpc_ok \/ reply # "accepted"
              THEN /\ t1_error' = IF rpc_ok THEN reply ELSE "other"
                   /\ T1Goto("except")
                   /\ UNCHANGED <<t1_last_tx_hash, mempool>>
              ELSE /\ mempool' = {t \in mempool : t.nonce # t1_nonce}
                                     \cup {transaction}
                   /\ t1_last_tx_hash' = <<transaction>>
                   /\ T1Goto("wait")
                   /\ UNCHANGED t1_error
    /\ UNCHANGED <<t1_gas_price_gwei, t1_nonce, t1_attempt, tx_count,
                   prior_pending, mined>>
    /\ UNCHANGED t1Idle

\* The receipts of a transaction that is in a block.
Receipts(sent_tx) ==
    {r \in mined : r.nonce = sent_tx.nonce /\ r.gasPrice = sent_tx.gasPrice}

\* transfer_eth, lines 190-194: wait_for_transaction_receipt returns the
\* receipt of a mined transaction, or raises (after 30 s without one, or when
\* the node fails).
T1Wait ==
    /\ t1_pc = "wait"
    /\ \E outcome \in {"receipt", "raises"} :
           LET found == Receipts(t1_last_tx_hash[1])
           IN /\ outcome = "receipt" => found # {}
              /\ IF outcome = "receipt" /\ (\E r \in found : r.status = 1)
                 THEN T1Return(Receipt(1)) /\ UNCHANGED t1_error
                 ELSE t1_error' = "other" /\ T1Goto("except")
    /\ UNCHANGED <<t1_gas_price_gwei, t1_nonce, t1_attempt, t1_last_tx_hash,
                   tx_count, prior_pending, mempool, mined>>
    /\ UNCHANGED t1Idle

\* `if attempt < max_retries - 1:` (lines 214-221): sleep and retry, or
\* give up.
T1RetryOrGiveUp ==
    IF t1_attempt < te_max_retries - 1
    THEN T1Goto("sleep")
    ELSE T1Return(ReturnsNone)

\* transfer_eth, lines 196-206 and 214-221: the except block up to its first
\* wait. After "nonce too low" the nonce is read again and the loop goes on
\* (after the last pass the function ends and returns None).
T1Except ==
    /\ t1_pc = "except"
    /\ \E rpc_ok \in BOOLEAN :
           IF t1_error = "nonce too low"
           THEN IF ~rpc_ok
                THEN T1Return(Raised) /\ UNCHANGED <<t1_nonce, t1_attempt>>
                ELSE /\ t1_nonce' = LatestNonce
                     /\ IF t1_attempt + 1 < te_max_retries
                        THEN t1_attempt' = t1_attempt + 1 /\ T1Goto("attempt")
                        ELSE T1Return(ReturnsNone) /\ UNCHANGED t1_attempt
           ELSE /\ IF t1_error = "already known" /\ t1_last_tx_hash # <<>>
                   THEN T1Goto("rewait")
                   ELSE T1RetryOrGiveUp
                /\ UNCHANGED <<t1_nonce, t1_attempt>>
    /\ UNCHANGED <<t1_gas_price_gwei, t1_last_tx_hash, t1_error, tx_count,
                   prior_pending, mempool, mined>>
    /\ UNCHANGED t1Idle

\* transfer_eth, lines 207-212: the wait for the transaction sent before.
T1Rewait ==
    /\ t1_pc = "rewait"
    /\ \E outcome \in {"receipt", "raises"} :
           LET found == Receipts(t1_last_tx_hash[1])
           IN /\ outcome = "receipt" => found # {}
              /\ IF outcome = "receipt" /\ (\E r \in found : r.status = 1)
                 THEN T1Return(Receipt(1))
                 ELSE T1RetryOrGiveUp
    /\ UNCHANGED <<t1_gas_price_gwei, t1_nonce, t1_attempt, t1_last_tx_hash,
                   t1_error, tx_count, prior_pending, mempool, mined>>
    /\ UNCHANGED t1Idle

\* transfer_eth, lines 216-218: after time.sleep(5) the nonce is read again
\* and the next pass starts.
T1AfterSleep ==
    /\ t1_pc = "sleep"
    /\ \E rpc_ok \in BOOLEAN :
           IF rpc_ok
           THEN /\ t1_nonce' = LatestNonce
                /\ t1_attempt' = t1_attempt + 1
                /\ T1Goto("attempt")
           ELSE T1Return(Raised) /\ UNCHANGED <<t1_nonce, t1_attempt>>
    /\ UNCHANGED <<t1_gas_price_gwei, t1_last_tx_hash, t1_error, tx_count,
                   prior_pending, mempool, mined>>
    /\ UNCHANGED t1Idle

\* The chain includes the sender's next transaction in a block: one that was
\* pending before the call (or its cancellation), else the transfer in the
\* mempool whose nonce is the transaction count. A transfer with status 1
\* has paid amount_eth to to_address.
MineBlock ==
    /\ t1_pc # "idle"
    /\ IF tx_count < prior_pending
       THEN UNCHANGED <<mempool, mined>>
       ELSE \E t \in mempool, status \in {0, 1} :
                /\ t.nonce = tx_count
                /\ mined' = mined \cup {[nonce |-> t.nonce,
                                         gasPrice |-> t.gasPrice,
                                         status |-> status]}
                /\ mempool' = {u \in mempool : u.nonce # t.nonce}
    /\ tx_count' = tx_count + 1
    /\ UNCHANGED <<t1_pc, t1_gas_price_gwei, t1_nonce, t1_attempt,
                   t1_last_tx_hash, t1_error, t1_result, prior_pending>>
    /\ UNCHANGED t1Idle

T1Next ==
    \/ T1Begin
    \/ T1AfterCancel
    \/ T1Send
    \/ T1Wait
    \/ T1Except
    \/ T1Rewait
    \/ T1AfterSleep
    \/ MineBlock

SpecOneTransfer == T1Init /\ [][T1Next]_vars

(***************************************************************************)
(* scripts/repeat_command.py: the nonces of an async run in nonce          *)
(* replacement mode (a send_blob_transactions.py command with both         *)
(* patterns and {REPLACE})                                                 *)
(***************************************************************************)
NrInit ==
    /\ nr_times \in 1 .. MaxTimes
    /\ nr_delay \in 0 .. MaxDelay
    /\ nr_semaphore = -1
    /\ nr_pc = "start"
    /\ nr_exit = -1
    /\ nr_task = [i \in Tasks |-> "absent"]
    /\ nr_timer = [i \in Tasks |-> 0]
    /\ nr_attempt = [i \in Tasks |-> 0]
    /\ current_nonce = [i \in Tasks |-> -1]
    /\ nr_launches = [i \in Tasks |-> 0]
    /\ pending_count = 0
    /\ RcIdle
    /\ TeIdle
    /\ SbIdle
    /\ VhIdle
    /\ SqIdle
    /\ WdIdle
    /\ T1Idle

\* execute_commands_async, lines 125-160: nonce replacement mode is on, the
\* semaphore and the tasks are created.
NrCreateTasks ==
    /\ nr_pc = "start"
    /\ \E concurrent \in 1 .. MaxConcurrent : nr_semaphore' = concurrent
    /\ nr_task' = [i \in Tasks |->
                     IF i < nr_times THEN "created" ELSE "absent"]
    /\ nr_pc' = "gather"
    /\ UNCHANGED <<nr_times, nr_delay, nr_exit, nr_timer, nr_attempt,
                   current_nonce, nr_launches, pending_count>>
    /\ UNCHANGED nrIdle

\* get_current_nonce: the transaction count at 'pending'.
get_current_nonce == pending_count

\* One pass of the loop of execute_command_async up to
\* process.communicate(): the command is launched.
NrLaunch(i, a, sem) ==
    /\ nr_task' = [nr_task EXCEPT ![i] = "communicate"]
    /\ nr_attempt' = [nr_attempt EXCEPT ![i] = a]
    /\ nr_launches' = [nr_launches EXCEPT ![i] = @ + 1]
    /\ nr_semaphore' = sem

\* bounded_execute, lines 143-152: the nonce is read and put into the
\* command (a failed lookup ends the script with sys.exit(1)), then the task
\* enters `async with semaphore` or waits for it.
NrAfterDelay(i) ==
    \E nonce_ok \in BOOLEAN :
        IF ~nonce_ok
        THEN /\ nr_pc' = "exited"
             /\ nr_exit' = 1
             /\ UNCHANGED <<nr_task, nr_attempt, current_nonce, nr_launches,
                            nr_semaphore>>
        ELSE /\ current_nonce' = [current_nonce EXCEPT
                                    ![i] = get_current_nonce]
             /\ UNCHANGED <<nr_pc, nr_exit>>
             /\ IF nr_semaphore > 0
                THEN NrLaunch(i, 0, nr_semaphore - 1)
                ELSE /\ nr_task' = [nr_task EXCEPT ![i] = "waiting"]
                     /\ UNCHANGED <<nr_attempt, nr_launches, nr_semaphore>>

\* bounded_execute, lines 139-141: the first turn of a task, in the order of
\* creation.
NrBoundedExecute(i) ==
    /\ nr_pc = "gather"
    /\ nr_task[i] = "created"
    /\ \A j \in Tasks : j < i => nr_task[j] # "created"
    /\ IF i > 0
       THEN /\ nr_task' = [nr_task EXCEPT ![i] = "sleeping"]
            /\ nr_timer' = [nr_timer EXCEPT ![i] = nr_delay]
            /\ UNCHANGED <<nr_pc, nr_exit, nr_attempt, current_nonce,
                           nr_launches, nr_semaphore>>
       ELSE /\ NrAfterDelay(i)
            /\ UNCHANGED nr_timer
    /\ UNCHANGED <<nr_times, nr_delay, pending_count>>
    /\ UNCHANGED nrIdle

\* asyncio.sleep(delay) of bounded_execute is over.
NrDelayElapsed(i) ==
    /\ nr_pc = "gather"
    /\ nr_task[i] = "sleeping"
    /\ nr_timer[i] = 0
    /\ NrAfterDelay(i)
    /\ UNCHANGED <<nr_times, nr_delay, nr_timer, pending_count>>
    /\ UNCHANGED nrIdle

\* A task blocked in `async with semaphore` acquires the semaphore.
NrSemaphoreAcquired(i) ==
    /\ nr_pc = "gather"
    /\ nr_task[i] = "waiting"
    /\ nr_semaphore > 0
    /\ NrLaunch(i, 0, nr_semaphore - 1)
    /\ UNCHANGED <<nr_times, nr_delay, nr_pc, nr_exit, nr_timer,
                   current_nonce, pending_count>>
    /\ UNCHANGED nrIdle

\* The launched command sends its transaction with the nonce it was given
\* and ends; process.communicate() returns (lines 89-108). The node takes a
\* transaction whose nonce is the pending count and refuses a nonce that is
\* used ("nonce too low" or ALREADY_EXISTS on stderr); after a nonce error
\* the loop sleeps 1 s and runs the same command again, max_retries times in
\* all.
NrCommunicate(i) ==
    /\ nr_pc = "gather"
    /\ nr_task[i] = "communicate"
    /\ \E other_error \in BOOLEAN :
           LET accepted == ~other_error /\ current_nonce[i] = pending_count
               result == IF other_error THEN "other_error"
                         ELSE IF current_nonce[i] < pending_count
                         THEN "nonce_error"
                         ELSE "success"
           IN /\ pending_count' = IF accepted THEN pending_count + 1
                                  ELSE pending_count
              /\ IF Retries(result, nr_attempt[i])
                 THEN /\ nr_task' = [nr_task EXCEPT ![i] = "retry_sleep"]
                      /\ nr_timer' = [nr_timer EXCEPT ![i] = RetrySleep]
                      /\ UNCHANGED <<nr_semaphore, nr_attempt>>
                 ELSE /\ nr_task' = [nr_task EXCEPT ![i] = "done"]
                      /\ nr_attempt' = [nr_attempt EXCEPT ![i] = 0]
                      /\ nr_semaphore' = nr_semaphore + 1
                      /\ UNCHANGED nr_timer
    /\ UNCHANGED <<nr_times, nr_delay, nr_pc, nr_exit, current_nonce,
                   nr_launches>>
    /\ UNCHANGED nrIdle

\* asyncio.sleep(1) before a retry is over: current_cmd, nonce included, is
\* launched again.
NrRetryAfterSleep(i) ==
    /\ nr_pc = "gather"
    /\ nr_task[i] = "retry_sleep"
    /\ nr_timer[i] = 0
    /\ NrLaunch(i, nr_attempt[i] + 1, nr_semaphore)
    /\ UNCHANGED <<nr_times, nr_delay, nr_pc, nr_exit, nr_timer,
                   current_nonce, pending_count>>
    /\ UNCHANGED nrIdle

\* asyncio.gather returns once every task has ended; main returns.
NrGatherDone ==
    /\ nr_pc = "gather"
    /\ \A i \in Tasks : nr_task[i] \in {"absent", "done"}
    /\ nr_pc' = "exited"
    /\ nr_exit' = 0
    /\ UNCHANGED <<nr_times, nr_delay, nr_semaphore, nr_task, nr_timer,
                   nr_attempt, current_nonce, nr_launches, pending_count>>
    /\ UNCHANGED nrIdle

\* One second passes while the event loop runs; the created tasks have had
\* their first turn.
NrTick ==
    /\ nr_pc = "gather"
    /\ \A i \in Tasks : nr_task[i] # "created"
    /\ \E i \in Tasks : nr_timer[i] > 0
    /\ nr_timer' = [i \in Tasks |->
                      IF nr_timer[i] > 0 THEN nr_timer[i] - 1 ELSE 0]
    /\ UNCHANGED <<nr_times, nr_delay, nr_semaphore, nr_pc, nr_exit, nr_task,
                   nr_attempt, current_nonce, nr_launches, pending_count>>
    /\ UNCHANGED nrIdle

NrNext ==
    \/ NrCreateTasks
    \/ \E i \in Tasks : NrBoundedExecute(i)
    \/ \E i \in Tasks : NrDelayElapsed(i)
    \/ \E i \in Tasks : NrSemaphoreAcquired(i)
    \/ \E i \in Tasks : NrCommunicate(i)
    \/ \E i \in Tasks : NrRetryAfterSleep(i)
    \/ NrGatherDone
    \/ NrTick

SpecNonce == NrInit /\ [][NrNext]_vars

(***************************************************************************)
(* Claims about scripts/repeat_command.py                                  *)
(***************************************************************************)
InFlight == {i \in Tasks : proc[i] = "running"}

\* C1: in async mode the number of command subprocesses that have been
\* launched and have not finished never exceeds max_concurrent (for a negative
\* max_concurrent the semaphore cannot be built and nothing is launched).
C1_ConcurrencyBound ==
    Cardinality(InFlight) <= (IF max_concurrent < 0 THEN 0 ELSE max_concurrent)

\* The semaphore is exhausted by two running commands while a third execution
\* waits for it.
C1_Witness ==
    /\ max_concurrent = 2
    /\ Cardinality(InFlight) = 2
    /\ \E i \in Tasks : task_pc[i] = "waiting"

\* C2: in async mode the first launch of execution i > 0 comes at least
\* `delay` seconds after the first launch of execution i-1.
C2_StartsSeparatedByDelay ==
    [][\A i \in Tasks \ {0} :
          (/\ since_launch[i] = -1
           /\ since_launch'[i] # -1
           /\ since_launch[i - 1] # -1) => since_launch[i - 1] >= delay]_vars

\* C3: one execution launches its command at most max_retries times, and
\* launches it again only after an attempt that ended with a nonce error, at
\* least one second after that attempt ended.
C3_RetryOnlyOnNonceError ==
    /\ [](\A i \in Tasks : launches[i] <= max_retries)
    /\ [][\A i \in Tasks :
             (launches[i] > 0 /\ launches'[i] # launches[i]) =>
                 /\ launches'[i] = launches[i] + 1
                 /\ last_exit[i].result = "nonce_error"
                 /\ last_exit[i].ago >= RetrySleep]_vars

\* An execution has used all its attempts: launched max_retries times, the
\* last attempt over.
C3_Witness ==
    \E i \in Tasks : launches[i] = max_retries /\ task_pc[i] = "done"


(***************************************************************************)
(* Claims about scripts/transfer_eth.py                                    *)
(***************************************************************************)

\* C4: a call of transfer_eth broadcasts at most max_retries transfers and
\* then returns, and what it returns is a receipt with status 1 or else None.
C4_ReturnsReceiptOrNone ==
    /\ broadcasts <= te_max_retries
    /\ \A k \in DOMAIN results :
           results[k] = Receipt(1) \/ results[k] = ReturnsNone

\* C5: main works through the addresses in list order, one transfer at a
\* time: transactions are broadcast only for the address in progress, the
\* next address is taken up only after a receipt for the one before, and a
\* transfer that fails is the last one and ends the script with status 1.
C5_InOrderUntilFirstFailure ==
    /\ [](\A k \in DOMAIN results :
              results[k].kind # "receipt" =>
                  k = Len(results) /\ te_pc = "exited" /\ te_exit = 1)
    /\ [](\A k \in DOMAIN sent :
              sent[k] => k <= current /\ k <= Len(results) + 1)
    /\ [][\A k \in DOMAIN sent :
              sent'[k] # sent[k] => k = current /\ Len(results) = current - 1]_vars
    /\ [][current' # current =>
              /\ current' = current + 1
              /\ current > 0 => results'[current].kind = "receipt"]_vars

\* The second of three transfers has failed after the first succeeded: the
\* script is over with status 1 and the third address was never tried.
C5_Witness ==
    /\ Len(addresses) = 3
    /\ Len(results) = 2
    /\ results[1] = Receipt(1)
    /\ results[2] = ReturnsNone
    /\ sent[2]
    /\ ~sent[3]
    /\ te_exit = 1

\* C6: when an address is invalid or the balance is below amount times the
\* number of addresses, the script broadcasts nothing and ends with status 1.
C6_NothingSentWithoutFunds ==
    (\/ \E k \in DOMAIN addresses : ~validate_eth_address(addresses[k])
     \/ WeiLessThan(balance, FloatTimesInt_Exact(amount, Len(addresses))))
    => /\ \A k \in DOMAIN sent : ~sent[k]
       /\ te_pc = "exited" => te_exit = 1

(***************************************************************************)
(* Claims about scripts/send_blob_transactions.py and send_transactions.py *)
(***************************************************************************)

\* C7: every blob transaction that send_blob signs or submits carries at
\* least 1 and at most 6 blobs, has value 0 and has transaction type 3,
\* whatever the command line.
C7_SignedBlobTxMeetsOsaka ==
    (script = "send_blob_transactions" /\ (signed \/ tx_hash))
    => /\ blobs >= 1
       /\ blobs <= OSAKA_MAX_BLOBS_PER_TX
       /\ tx.value = 0
       /\ tx.type = 3

\* C8: validate_osaka_params raises ValueError exactly when number_of_blobs
\* is below 1 or above 6, tx_type is not '0x3', value is not 0, or a gas limit
\* is given and exceeds 2^24; otherwise it returns.
C8_ValidateRaisesExactlyWhen ==
    validated # "not called" =>
        /\ validated \in {"ValueError", "returned"}
        /\ validated = "ValueError" <=>
               \/ args.number_of_blobs < 1
               \/ args.number_of_blobs > 6
               \/ args.tx_type # "0x3"
               \/ args.value # 0
               \/ args.gas_limit.given /\ args.gas_limit.v > 16777216

\* validate_osaka_params has returned for six blobs and a gas limit of
\* exactly 2^24, and has raised for no blob at all.
C8_Witness ==
    /\ validated # "not called"
    /\ \/ /\ validated = "returned"
          /\ args.number_of_blobs = 6
          /\ args.gas_limit = Given(16777216)
       \/ /\ validated = "ValueError"
          /\ args.number_of_blobs = 0
          /\ args.tx_type = "0x3"
          /\ args.value = 0
          /\ args.gas_limit = NotGiven

\* C9: the transaction construct_blob_transaction returns has gas at most
\* 2^24, whether the gas is --gas-limit, the estimate or the default; a
\* larger value is replaced by exactly 2^24, a smaller one is kept.
C9_GasAtMostCap ==
    (script = "send_blob_transactions" /\ tx # NoTx) =>
        LET source == IF args.gas_limit.given /\ args.gas_limit.v # 0
                      THEN args.gas_limit.v
                      ELSE IF estimated # -1 THEN estimated
                      ELSE 1000000
        IN /\ tx.gas <= 16777216
           /\ source > 16777216 => tx.gas = 16777216
           /\ source <= 16777216 => tx.gas = source

\* An estimate above the cap has been replaced by 2^24.
C9_Witness ==
    /\ script = "send_blob_transactions"
    /\ estimate_requested
    /\ estimated > 16777216
    /\ tx.gas = 16777216

\* C10: without a gas limit, a failed estimation leaves the transaction built
\* with the default gas (21,000 in send_transactions.py, 1,000,000 in
\* send_blob_transactions.py); with a gas limit given, no estimation is
\* requested and the transaction carries exactly that limit.
C10_DefaultOrGivenGas ==
    /\ (~args.gas_limit.given /\ estimate_requested /\ estimated = -1)
       => /\ tx # NoTx
          /\ tx.gas = IF script = "send_transactions" THEN 21000 ELSE 1000000
    /\ (script # None /\ args.gas_limit.given)
       => /\ ~estimate_requested
          /\ tx # NoTx => tx.gas = args.gas_limit.v

\* The order of the phases of send_blob.
PhaseOrder ==
    {<<"start", "prepare">>, <<"prepare", "hashes">>,
     <<"hashes", "construct">>, <<"construct", "sign">>,
     <<"sign", "submit">>, <<"submit", "receipt">>, <<"receipt", "done">>}

\* C11: in send_blob the phases run in the order validation, blob
\* preparation, versioned hashes, construction, signing, submission, receipt
\* wait; a transaction is submitted only after it was signed; when a phase
\* raises, no later phase runs and the exception reaches the caller.
C11_PhasesInOrder ==
    /\ [][script = "send_blob_transactions" /\ sb_pc' # sb_pc =>
              \/ <<sb_pc, sb_pc'>> \in PhaseOrder
              \/ sb_pc' = "raised" /\ raised' # None]_vars
    /\ [][script = "send_blob_transactions" =>
              /\ validated' # validated => sb_pc = "start"
              /\ blobs' # blobs => sb_pc = "prepare"
              /\ versioned_hashes' # versioned_hashes => sb_pc = "hashes"
              /\ tx' # tx => sb_pc = "construct"
              /\ signed' # signed => sb_pc = "sign"
              /\ tx_hash' # tx_hash => sb_pc = "submit" /\ signed]_vars
    /\ [][sb_pc = "raised" => UNCHANGED sbVars]_vars
    /\ [](script = "send_blob_transactions" =>
              /\ tx_hash => signed
              /\ sb_pc = "done" => tx_hash /\ raised = None)

\* The submission has raised after validation, preparation, hashes,
\* construction and signing went through.
C11_Witness ==
    /\ script = "send_blob_transactions"
    /\ validated = "returned"
    /\ versioned_hashes = blobs
    /\ signed
    /\ ~tx_hash
    /\ sb_pc = "raised"
    /\ raised = "ValueError"

C13_DelayBetweenExecutions ==
    /\ [][(sq_pc' = "running" /\ sq_pc # "running" /\ sq_executions > 0)
              => sq_since >= sq_delay]_vars
    /\ [](sq_pc = "sleeping" => sq_i < sq_times - 1)

\* C14: a command with {REPLACE} from which a private key and an RPC URL
\* cannot both be extracted (no send_blob_transactions.py command, or one of
\* the two patterns without a match) is never executed, in either mode: the
\* script ends with status 1 at the check.
C14_ExitsBeforeExecuting ==
    /\ (/\ rc_pc # "idle"
        /\ command.replace
        /\ ~(command.blob /\ command.key /\ command.url))
       => /\ \A i \in Tasks : launches[i] = 0
          /\ rc_pc # "start" => rc_pc = "exited" /\ exit_status = 1
    /\ (/\ sq_pc # "idle"
        /\ sq_command.replace
        /\ ~(sq_command.blob /\ sq_command.key /\ sq_command.url))
       => /\ sq_executions = 0
          /\ sq_pc # "start" => sq_pc = "exited" /\ sq_exit = 1

\* A send_blob_transactions.py command with {REPLACE} and a private key but
\* no RPC URL has ended the script, in one mode or the other, although it
\* was to be repeated.
C14_Witness ==
    \/ /\ command = [blob |-> TRUE, key |-> TRUE, url |-> FALSE,
                     replace |-> TRUE]
       /\ times > 0
       /\ rc_pc = "exited"
       /\ exit_status = 1
    \/ /\ sq_command = [blob |-> TRUE, key |-> TRUE, url |-> FALSE,
                        replace |-> TRUE]
       /\ sq_times > 0
       /\ sq_pc = "exited"
       /\ sq_exit = 1

(***************************************************************************)
(* Claims about scripts/withdrawals.py and scripts/voluntary_exits.py      *)
(***************************************************************************)
\* A transaction that makes the validator exit: every transaction of
\* voluntary_exits.py, and of withdrawals.py the one whose encoded amount
\* (the last 16 hex digits of its data) is 0.
IsExitTx(t) == wd_script = "voluntary_exits" \/ t.data = <<>>

\* The prompt p was answered with a yes ('y' in either case).
Yes(p) == wd_answer[p] # None /\ ~Declined(wd_answer[p])

\* The prompts that follow the warning "Voluntary exit is IRREVERSIBLE!".
IrreversibilityPrompts ==
    IF wd_script = "voluntary_exits" THEN {"main_exit", "send_exit"}
    ELSE {"exit"}

\* C15: a voluntary-exit transaction is sent only after the user has answered
\* yes to the irreversibility confirmation, and any other answer to that
\* confirmation ends the run with no transaction sent.
C15_ExitOnlyAfterYes ==
    /\ \A k \in 1 .. Len(wd_tx) :
           IsExitTx(wd_tx[k]) => \A p \in IrreversibilityPrompts : Yes(p)
    /\ \A p \in IrreversibilityPrompts :
           (wd_answer[p] # None /\ ~Yes(p))
               => wd_tx = <<>> /\ wd_pc \in {"exited", "returned"}

\* C16: send_withdrawal sends a transaction only if the excess read from
\* storage slot 0 is not 2^256-1 and the balance is at least
\* calculate_fee(1, excess, 17), and the transaction carries exactly that fee
\* as its value.
C16_FeeCoveredAndPaid ==
    wd_script = "withdrawals"
        => \A k \in 1 .. Len(wd_tx) :
               /\ wd_excess # EXCESS_INHIBITOR
               /\ wd_balance >= calculate_fee(1, IntOf(wd_excess), 17)
               /\ wd_tx[k].value = calculate_fee(1, IntOf(wd_excess), 17)

\* A withdrawal sent with a balance that just covers the fee of excess 20.
C16_Witness ==
    /\ wd_script = "withdrawals"
    /\ wd_excess = NatBits(20)
    /\ wd_balance = 3
    /\ Len(wd_tx) = 1
    /\ wd_tx[1].value = 3

(***************************************************************************)
(* Claims about one call of transfer_eth                                   *)
(***************************************************************************)
\* The mined transactions of the call that paid amount_eth to to_address.
Paid == {r \in mined : r.status = 1}

\* C17: one call of transfer_eth leads to at most one mined transaction that
\* pays amount_eth to to_address, whatever the order of receipt timeouts,
\* node errors and block inclusions.
C17_AtMostOnePayment == Cardinality(Paid) <= 1

(***************************************************************************)
(* Claims about the nonces of an async run of scripts/repeat_command.py    *)
(***************************************************************************)
\* C18: in async nonce-replacement mode no two executions of one run launch
\* their command with the same nonce substituted for {REPLACE}.
C18_DistinctNonces ==
    \A i, j \in Tasks :
        (i # j /\ nr_launches[i] > 0 /\ nr_launches[j] > 0)
            => current_nonce[i] # current_nonce[j]

====
